---- MODULE Spec2Model ----
(***************************************************************************)
(* Call-site code generation of compiler/dex/quick/gen_invoke.cc:          *)
(* GenInvokeNoInline, the NextCallInsn dispatch routines, the argument     *)
(* marshalling of GenDalvikArgsNoRange / GenDalvikArgsRange / LoadArgRegs  *)
(* and the prologue side FlushIns.  The emitted LIR is kept as a log; a    *)
(* symbolic execution of the log gives the register and memory contents.   *)
(***************************************************************************)
EXTENDS Integers, Sequences, FiniteSets, TLC

(* ------------------------------------------------------------------ *)
(* Bounds of the model                                                 *)
(* ------------------------------------------------------------------ *)
MaxArgWords == 6
MaxIns == 4
MaxFpReg == 2
MaxStackWords == 17

(* ------------------------------------------------------------------ *)
(* State                                                               *)
(* ------------------------------------------------------------------ *)
VARIABLES
  arch,            \* cu_->instruction_set
  info,            \* the CallInfo being lowered
  pc,              \* position inside GenInvokeNoInline
  call_state,      \* local call_state
  next_call_insn,  \* local next_call_insn (name of the routine)
  skip_this,       \* local skip_this
  p_null_ck,       \* local p_null_ck != NULL
  lir,             \* the instructions emitted so far, in order
  result,          \* info->result, once it has been read
  opt_flags,       \* info->opt_flags
  intrinsic,       \* the generator GenIntrinsic dispatches to, with its operands
  launchpads,      \* the slow paths AddIntrinsicLaunchpad has registered
  rc_pc,           \* position inside the bulk copy of GenDalvikArgsRange
  rc_src_offset,   \* current_src_offset of the x86 transfer loop
  rc_dest_offset,  \* current_dest_offset of the x86 transfer loop
  rc_regs_left,    \* regs_left_to_pass_via_stack
  rh_pc,           \* position inside a CallRuntimeHelper variant
  rh_variant,      \* the CallRuntimeHelper variant
  rh_arg0,         \* its register argument arg0
  rh_arg1,         \* its register argument arg1
  fi_pc,           \* position inside FlushIns
  fi_num_ins,      \* cu_->num_ins
  fi_i,            \* loop index i of FlushIns
  fi_cur,          \* the words of the incoming value the loop of FlushIns is at
  fi_lir,          \* instructions FlushIns emitted before its loop
  operands,        \* the values an emitted fast path finds when it is executed
  outcome          \* where the execution of the fast path went

invokeVars == <<arch, info, pc, call_state, next_call_insn, skip_this, p_null_ck, lir,
                result, opt_flags>>
flushVars == <<fi_pc, fi_num_ins, fi_i, fi_cur, fi_lir>>
intrinsicVars == <<intrinsic, launchpads>>
rangeVars == <<rc_pc, rc_src_offset, rc_dest_offset, rc_regs_left>>
helperVars == <<rh_pc, rh_variant, rh_arg0, rh_arg1>>
runVars == <<operands, outcome>>
nonInvokeVars == <<flushVars, intrinsicVars, rangeVars, helperVars, runVars>>
nonFlushVars == <<invokeVars, intrinsicVars, rangeVars, helperVars, runVars>>
vars == <<arch, info, pc, call_state, next_call_insn, skip_this, p_null_ck, lir,
          result, opt_flags, fi_pc, fi_num_ins, fi_i, fi_cur, fi_lir,
          intrinsic, launchpads,
          rc_pc, rc_src_offset, rc_dest_offset, rc_regs_left,
          rh_pc, rh_variant, rh_arg0, rh_arg1, operands, outcome>>

(* ------------------------------------------------------------------ *)
(* Architectures, invoke types, registers                              *)
(* ------------------------------------------------------------------ *)
InstructionSets == {"kThumb2", "kMips", "kX86"}
InvokeTypes == {"kStatic", "kDirect", "kSuper", "kVirtual", "kInterface"}

\* direct_code / direct_method: 0 (unknown), -1 (known, fixed up at link time),
\* or a known address
DirectValues == {0, -1, 4096}

\* TargetReg(role): a register is a pair <<role, index>>
kArg(i) == <<"kArg", i>>
kInvokeTgt == <<"kInvokeTgt", 0>>
kHiddenArg == <<"kHiddenArg", 0>>
kHiddenFpArg == <<"kHiddenFpArg", 0>>
kSelf == <<"kSelf", 0>>
kSp == <<"kSp", 0>>
NoReg == <<"none", 0>>
\* rl_arg.reg.GetReg() / GetHighReg() of the value whose word is w
PhysRegOf(w) == <<"promoted", w>>

\* one emitted LIR instruction (or the record of a pull of next_call_insn)
Ins(by, op, dst, dst2, src, src2, fld, imm) ==
  [by |-> by, op |-> op, dst |-> dst, dst2 |-> dst2, src |-> src, src2 |-> src2,
   fld |-> fld, imm |-> imm]

(* ------------------------------------------------------------------ *)
(* The argument list of a CallInfo: one RegLocation per argument word  *)
(* ------------------------------------------------------------------ *)
Locations == {"kLocPhysReg", "kLocDalvikFrame"}

NarrowLoc(l) == [wide |-> FALSE, high_word |-> FALSE, location |-> l]
WideLoLoc(l) == [wide |-> TRUE, high_word |-> FALSE, location |-> l]
WideHiLoc(l) == [wide |-> TRUE, high_word |-> TRUE, location |-> l]

\* The location of a value is consulted by the marshalling code only when one
\* of its words has index >= 3 (the words passed on the stack); a value that
\* lies in words 0..2 is handed to LoadValueDirectFixed whatever its location.
LocationsAt(firstWord, isWide) ==
  IF firstWord + (IF isWide THEN 1 ELSE 0) >= 3 THEN Locations ELSE {"kLocDalvikFrame"}

RECURSIVE ArgLists(_)
ArgLists(n) ==
  IF n = 0 THEN {<< >>}
  ELSE {Append(a, NarrowLoc(l)) : a \in ArgLists(n - 1), l \in LocationsAt(n - 1, FALSE)}
       \cup (IF n >= 2
             THEN UNION {{a \o <<WideLoLoc(l), WideHiLoc(l)>> : l \in LocationsAt(n - 2, TRUE)}
                          : a \in ArgLists(n - 2)}
             ELSE {})

\* info->args[i], i counted from 0 as in the source
Arg(ci, i) == ci.args[i + 1]
NumArgWords(ci) == Len(ci.args)

(* ------------------------------------------------------------------ *)
(* Dispatch resolution: the NextCallInsn routines.  Each takes the     *)
(* state and returns the instructions it emits and the next state.     *)
(* ------------------------------------------------------------------ *)
DIns(op, dst, src, fld) == Ins("dispatch", op, dst, NoReg, src, NoReg, fld, 0)
Step(emit, next) == [emit |-> emit, next |-> next]

\* the direct_code part of NextSDCallInsn state 0 (both addresses known)
SDLoadCodeKnownAnyArch(cu, ci) ==
  IF ci.direct_code # -1
  THEN <<Ins("dispatch", "LoadConstant", kInvokeTgt, NoReg, NoReg, NoReg, "direct_code", 0)>>
  ELSE <<Ins("dispatch", "LoadCodeAddress", kInvokeTgt, NoReg, NoReg, NoReg, "target_method", 0)>>
SDLoadCodeKnown(cu, ci) ==
  IF ci.direct_code # -1
  THEN (IF cu # "kX86"
        THEN <<DIns("LoadConstant", kInvokeTgt, NoReg, "direct_code")>>
        ELSE << >>)
  ELSE (IF cu # "kX86"
        THEN <<DIns("LoadCodeAddress", kInvokeTgt, NoReg, "target_method")>>
        ELSE << >>)

\* the direct_code part of NextSDCallInsn state 1 (method pointer not known)
SDLoadCodeIfKnownDropped(cu, ci) == << >>
SDLoadCodeIfKnown(cu, ci) ==
  IF ci.direct_code # 0
  THEN (IF ci.direct_code # -1
        THEN <<DIns("LoadConstant", kInvokeTgt, NoReg, "direct_code")>>
        ELSE IF cu # "kX86"
             THEN <<DIns("LoadCodeAddress", kInvokeTgt, NoReg, "target_method")>>
             ELSE << >>)
  ELSE << >>

\* the routine whose state 3 loads the entry point whatever direct_code is
NextSDCallInsnAlwaysLoadsEntry(cu, ci, state) ==
  IF ci.direct_code # 0 /\ ci.direct_method # 0
  THEN IF state = 0
       THEN Step(SDLoadCodeKnown(cu, ci)
                 \o (IF ci.direct_method # -1
                     THEN <<DIns("LoadConstant", kArg(0), NoReg, "direct_method")>>
                     ELSE <<DIns("LoadMethodAddress", kArg(0), NoReg, "target_method")>>),
                 state + 1)
       ELSE Step(<< >>, -1)
  ELSE CASE state = 0 ->
              Step(<<DIns("LoadCurrMethodDirect", kArg(0), NoReg, "")>>, state + 1)
         [] state = 1 ->
              Step(<<DIns("LoadWordDisp", kArg(0), kArg(0), "DexCacheResolvedMethods")>>
                   \o SDLoadCodeIfKnown(cu, ci), state + 1)
         [] state = 2 ->
              Step(<<DIns("LoadWordDisp", kArg(0), kArg(0), "Data[dex_method_index]")>>,
                   state + 1)
         [] state = 3 ->
              IF cu # "kX86"
              THEN Step(<<DIns("LoadWordDisp", kInvokeTgt, kArg(0),
                              "EntryPointFromQuickCompiledCode")>>, state + 1)
              ELSE Step(<< >>, -1)
         [] OTHER -> Step(<< >>, -1)

NextSDCallInsn(cu, ci, state) ==
  IF ci.direct_code # 0 /\ ci.direct_method # 0
  THEN IF state = 0
       THEN Step(SDLoadCodeKnown(cu, ci)
                 \o (IF ci.direct_method # -1
                     THEN <<DIns("LoadConstant", kArg(0), NoReg, "direct_method")>>
                     ELSE <<DIns("LoadMethodAddress", kArg(0), NoReg, "target_method")>>),
                 state + 1)
       ELSE Step(<< >>, -1)
  ELSE CASE state = 0 ->
              Step(<<DIns("LoadCurrMethodDirect", kArg(0), NoReg, "")>>, state + 1)
         [] state = 1 ->
              Step(<<DIns("LoadWordDisp", kArg(0), kArg(0), "DexCacheResolvedMethods")>>
                   \o SDLoadCodeIfKnown(cu, ci), state + 1)
         [] state = 2 ->
              Step(<<DIns("LoadWordDisp", kArg(0), kArg(0), "Data[dex_method_index]")>>,
                   state + 1)
         [] state = 3 ->
              IF cu # "kX86"
              THEN Step(IF ci.direct_code = 0
                        THEN <<DIns("LoadWordDisp", kInvokeTgt, kArg(0),
                                    "EntryPointFromQuickCompiledCode")>>
                        ELSE << >>, state + 1)
              ELSE Step(<< >>, -1)
         [] OTHER -> Step(<< >>, -1)

\* LoadValueDirectFixed(info->args[0], kArg1): the receiver
LoadThis == Ins("dispatch", "LoadValueDirectFixed", kArg(1), NoReg, NoReg, NoReg, "arg", 0)

\* the virtual sequence starting over once its last step was pulled
NextVCallInsnStartingOver(cu, ci, state) ==
  CASE state = 0 -> Step(<<LoadThis>>, state + 1)
    [] state = 1 ->
         Step(<<DIns("GenNullCheck", NoReg, kArg(1), ""),
                DIns("LoadWordDisp", kInvokeTgt, kArg(1), "Class"),
                DIns("MarkPossibleNullPointerException", NoReg, NoReg, "")>>, state + 1)
    [] state = 2 ->
         Step(<<DIns("LoadWordDisp", kInvokeTgt, kInvokeTgt, "VTable")>>, state + 1)
    [] state = 3 ->
         Step(<<DIns("LoadWordDisp", kArg(0), kInvokeTgt, "Data[method_idx]")>>, state + 1)
    [] state = 4 ->
         IF cu # "kX86"
         THEN Step(<<DIns("LoadWordDisp", kInvokeTgt, kArg(0),
                          "EntryPointFromQuickCompiledCode")>>, state + 1)
         ELSE Step(<< >>, -1)
    [] state = 5 -> Step(<< >>, -1)
    [] OTHER -> Step(<<LoadThis>>, 1)
NextVCallInsn(cu, ci, state) ==
  CASE state = 0 -> Step(<<LoadThis>>, state + 1)
    [] state = 1 ->
         Step(<<DIns("GenNullCheck", NoReg, kArg(1), ""),
                DIns("LoadWordDisp", kInvokeTgt, kArg(1), "Class"),
                DIns("MarkPossibleNullPointerException", NoReg, NoReg, "")>>, state + 1)
    [] state = 2 ->
         Step(<<DIns("LoadWordDisp", kInvokeTgt, kInvokeTgt, "VTable")>>, state + 1)
    [] state = 3 ->
         Step(<<DIns("LoadWordDisp", kArg(0), kInvokeTgt, "Data[method_idx]")>>, state + 1)
    [] state = 4 ->
         IF cu # "kX86"
         THEN Step(<<DIns("LoadWordDisp", kInvokeTgt, kArg(0),
                          "EntryPointFromQuickCompiledCode")>>, state + 1)
         ELSE Step(<< >>, -1)
    [] OTHER -> Step(<< >>, -1)

\* the virtual sequence with the hidden argument loaded by its step 0
NextInterfaceCallInsnFolded(cu, ci, state) ==
  CASE state = 0 ->
         Step(<<DIns("LoadConstant", kHiddenArg, NoReg, "dex_method_index")>>
              \o (IF cu = "kX86"
                  THEN <<DIns("OpRegCopy", kHiddenFpArg, kHiddenArg, "")>>
                  ELSE << >>)
              \o <<LoadThis>>, state + 1)
    [] state = 1 ->
         Step(<<DIns("GenNullCheck", NoReg, kArg(1), ""),
                DIns("LoadWordDisp", kInvokeTgt, kArg(1), "Class"),
                DIns("MarkPossibleNullPointerException", NoReg, NoReg, "")>>, state + 1)
    [] state = 2 ->
         Step(<<DIns("LoadWordDisp", kInvokeTgt, kInvokeTgt, "ImTable")>>, state + 1)
    [] state = 3 ->
         Step(<<DIns("LoadWordDisp", kArg(0), kInvokeTgt, "Data[method_idx % kImtSize]")>>,
              state + 1)
    [] state = 4 ->
         IF cu # "kX86"
         THEN Step(<<DIns("LoadWordDisp", kInvokeTgt, kArg(0),
                          "EntryPointFromQuickCompiledCode")>>, state + 1)
         ELSE Step(<< >>, -1)
    [] OTHER -> Step(<< >>, -1)
NextInterfaceCallInsn(cu, ci, state) ==
  CASE state = 0 ->
         Step(<<DIns("LoadConstant", kHiddenArg, NoReg, "dex_method_index")>>
              \o (IF cu = "kX86"
                  THEN <<DIns("OpRegCopy", kHiddenFpArg, kHiddenArg, "")>>
                  ELSE << >>), state + 1)
    [] state = 1 -> Step(<<LoadThis>>, state + 1)
    [] state = 2 ->
         Step(<<DIns("GenNullCheck", NoReg, kArg(1), ""),
                DIns("LoadWordDisp", kInvokeTgt, kArg(1), "Class"),
                DIns("MarkPossibleNullPointerException", NoReg, NoReg, "")>>, state + 1)
    [] state = 3 ->
         Step(<<DIns("LoadWordDisp", kInvokeTgt, kInvokeTgt, "ImTable")>>, state + 1)
    [] state = 4 ->
         Step(<<DIns("LoadWordDisp", kArg(0), kInvokeTgt, "Data[method_idx % kImtSize]")>>,
              state + 1)
    [] state = 5 ->
         IF cu # "kX86"
         THEN Step(<<DIns("LoadWordDisp", kInvokeTgt, kArg(0),
                          "EntryPointFromQuickCompiledCode")>>, state + 1)
         ELSE Step(<< >>, -1)
    [] OTHER -> Step(<< >>, -1)

\* the slow path: load the trampoline and the method index
NextInvokeInsnSPAllGuarded(cu, trampoline, state) ==
  IF state = 0
  THEN Step(IF cu # "kX86"
            THEN <<DIns("LoadWordDisp", kInvokeTgt, kSelf, trampoline),
                   DIns("LoadConstant", kArg(0), NoReg, "dex_method_index")>>
            ELSE << >>, 1)
  ELSE Step(<< >>, -1)
NextInvokeInsnSP(cu, trampoline, state) ==
  IF state = 0
  THEN Step((IF cu # "kX86"
             THEN <<DIns("LoadWordDisp", kInvokeTgt, kSelf, trampoline)>>
             ELSE << >>)
            \o <<DIns("LoadConstant", kArg(0), NoReg, "dex_method_index")>>, 1)
  ELSE Step(<< >>, -1)

NextStaticCallInsnSP(cu, ci, state) ==
  NextInvokeInsnSP(cu, "pInvokeStaticTrampolineWithAccessCheck", state)
NextDirectCallInsnSP(cu, ci, state) ==
  NextInvokeInsnSP(cu, "pInvokeDirectTrampolineWithAccessCheck", state)
NextSuperCallInsnSPAsVirtual(cu, ci, state) ==
  NextInvokeInsnSP(cu, "pInvokeVirtualTrampolineWithAccessCheck", state)
NextSuperCallInsnSP(cu, ci, state) ==
  NextInvokeInsnSP(cu, "pInvokeSuperTrampolineWithAccessCheck", state)
NextVCallInsnSP(cu, ci, state) ==
  NextInvokeInsnSP(cu, "pInvokeVirtualTrampolineWithAccessCheck", state)
NextInterfaceCallInsnWithAccessCheck(cu, ci, state) ==
  NextInvokeInsnSP(cu, "pInvokeInterfaceTrampolineWithAccessCheck", state)

\* a call through the function pointer next_call_insn
NextCallInsn(nci, cu, ci, state) ==
  CASE nci = "NextSDCallInsn" -> NextSDCallInsn(cu, ci, state)
    [] nci = "NextVCallInsn" -> NextVCallInsn(cu, ci, state)
    [] nci = "NextInterfaceCallInsn" -> NextInterfaceCallInsn(cu, ci, state)
    [] nci = "NextStaticCallInsnSP" -> NextStaticCallInsnSP(cu, ci, state)
    [] nci = "NextDirectCallInsnSP" -> NextDirectCallInsnSP(cu, ci, state)
    [] nci = "NextSuperCallInsnSP" -> NextSuperCallInsnSP(cu, ci, state)
    [] nci = "NextVCallInsnSP" -> NextVCallInsnSP(cu, ci, state)
    [] nci = "NextInterfaceCallInsnWithAccessCheck" ->
         NextInterfaceCallInsnWithAccessCheck(cu, ci, state)

\* The code generator's running state while one call is lowered: the
\* call_state and the instruction list.  A pull of next_call_insn leaves a
\* record of the state it was called with, followed by what it emitted.
PullMark(state) == Ins("dispatch", "next_call_insn", NoReg, NoReg, NoReg, NoReg, "", state)
Pull(nci, cu, ci, st) ==
  LET r == NextCallInsn(nci, cu, ci, st.cs)
  IN [cs |-> r.next, lir |-> st.lir \o <<PullMark(st.cs)>> \o r.emit]
Emit(st, instrs) == [cs |-> st.cs, lir |-> st.lir \o instrs]

(* ------------------------------------------------------------------ *)
(* Argument marshalling                                                *)
(* ------------------------------------------------------------------ *)
MIns(op, dst, dst2, src, src2, fld, imm) == Ins("marshal", op, dst, dst2, src, src2, fld, imm)
Trace(what, n) == Ins("trace", what, NoReg, NoReg, NoReg, NoReg, "", n)

\* SRegOffset(s_reg): frame offset of the home slot of argument word w.  The
\* words of a call occupy consecutive virtual registers; ci.start_offset is the
\* offset of the home of word 3.
SRegOffset(ci, w) == ci.start_offset + 4 * (w - 3)

LoadValueDirectFixed(w, reg) == MIns("LoadValueDirectFixed", reg, NoReg, NoReg, NoReg, "arg", w)
LoadValueDirectWideFixed(w, lo, hi) ==
  MIns("LoadValueDirectWideFixed", lo, hi, NoReg, NoReg, "arg", w)
LoadWordDisp(base, disp, reg) == MIns("LoadWordDisp", reg, NoReg, base, NoReg, "mem", disp)
StoreWordDisp(base, disp, reg) == MIns("StoreWordDisp", NoReg, NoReg, reg, NoReg, "mem", disp)
StoreBaseDisp(base, disp, reg) == MIns("StoreBaseDisp", NoReg, NoReg, reg, NoReg, "mem", disp)
StoreBaseDispWide(base, disp, lo, hi) ==
  MIns("StoreBaseDispWide", NoReg, NoReg, lo, hi, "mem", disp)
GenNullCheck(reg) == MIns("GenNullCheck", NoReg, NoReg, reg, NoReg, "", 0)

\* the loop calling next_call_insn once for every register it fills
RECURSIVE LoadArgRegsLoopPullPerRegister(_, _, _, _, _, _)
LoadArgRegsLoopPullPerRegister(ci, st, nci, cu, next_reg, next_arg) ==
  IF ~(next_reg <= 3 /\ next_arg < NumArgWords(ci))
  THEN st
  ELSE LET rl_arg == Arg(ci, next_arg)
       IN IF rl_arg.wide /\ next_reg <= 2
          THEN LoadArgRegsLoopPullPerRegister(ci,
                 Pull(nci, cu, ci,
                      Pull(nci, cu, ci,
                           Emit(st, <<LoadValueDirectWideFixed(next_arg, kArg(next_reg),
                                                               kArg(next_reg + 1))>>))),
                 nci, cu, next_reg + 2, next_arg + 2)
          ELSE LoadArgRegsLoopPullPerRegister(ci,
                 Pull(nci, cu, ci, Emit(st, <<LoadValueDirectFixed(next_arg, kArg(next_reg))>>)),
                 nci, cu, next_reg + 1, next_arg + 1)

\* the for loop of LoadArgRegs; next_reg is the index of kArg<next_reg>
RECURSIVE LoadArgRegsLoop(_, _, _, _, _, _)
LoadArgRegsLoop(ci, st, nci, cu, next_reg, next_arg) ==
  IF ~(next_reg <= 3 /\ next_arg < NumArgWords(ci))
  THEN st
  ELSE LET rl_arg == Arg(ci, next_arg)
       IN IF rl_arg.wide /\ next_reg <= 2
          THEN LoadArgRegsLoop(ci,
                 Pull(nci, cu, ci,
                      Emit(st, <<LoadValueDirectWideFixed(next_arg, kArg(next_reg),
                                                          kArg(next_reg + 1))>>)),
                 nci, cu, next_reg + 2, next_arg + 2)
          ELSE LoadArgRegsLoop(ci,
                 Pull(nci, cu, ci, Emit(st, <<LoadValueDirectFixed(next_arg, kArg(next_reg))>>)),
                 nci, cu, next_reg + 1, next_arg + 1)

\* the loop started at kArg1 with args[0] whatever skip_this says
LoadArgRegsIgnoringSkip(ci, st, nci, cu, skip) ==
  LoadArgRegsLoop(ci, st, nci, cu, 1, 0)
LoadArgRegs(ci, st, nci, cu, skip) ==
  IF skip
  THEN LoadArgRegsLoop(ci, st, nci, cu, 2, 1)
  ELSE LoadArgRegsLoop(ci, st, nci, cu, 1, 0)

\* "Detect special case of wide arg spanning arg3/arg4"
\* the detection looking at args[2] only
WideSpansArg3Arg4Word2Only(ci) == Arg(ci, 2).wide
WideSpansArg3Arg4(ci) ==
  /\ (~Arg(ci, 0).wide /\ ~Arg(ci, 1).wide) \/ Arg(ci, 0).wide
  /\ Arg(ci, 2).wide

\* the special case itself: store the 2nd half of args[2] to the outs
StoreSpanningHalf(ci, st, nci, cu) ==
  LET next_use == 3
      rl_arg == Arg(ci, 2)
  IN IF rl_arg.location = "kLocPhysReg"
     THEN Pull(nci, cu, ci,
               Emit(st, <<StoreBaseDisp(kSp, (next_use + 1) * 4, PhysRegOf(3))>>))
     ELSE Pull(nci, cu, ci,
               Emit(Pull(nci, cu, ci,
                         Emit(st, <<LoadWordDisp(kSp, SRegOffset(ci, 2) + 4, kArg(3))>>)),
                    <<StoreBaseDisp(kSp, (next_use + 1) * 4, kArg(3))>>))

\* "Loop through the rest"
RECURSIVE NoRangeLoop(_, _, _, _, _)
NoRangeLoop(ci, st, nci, cu, next_use) ==
  IF ~(next_use < NumArgWords(ci))
  THEN st
  ELSE LET rl_arg == Arg(ci, next_use)
           inReg == rl_arg.location = "kLocPhysReg"
           low_reg == IF inReg THEN PhysRegOf(next_use) ELSE kArg(2)
           high_reg == IF inReg THEN PhysRegOf(next_use + 1) ELSE kArg(3)
           st1 == IF inReg
                  THEN st
                  ELSE Pull(nci, cu, ci,
                            Emit(st, IF rl_arg.wide
                                     THEN <<LoadValueDirectWideFixed(next_use, low_reg, high_reg)>>
                                     ELSE <<LoadValueDirectFixed(next_use, low_reg)>>))
           outs_offset == (next_use + 1) * 4
       IN IF rl_arg.wide
          THEN NoRangeLoop(ci,
                 Pull(nci, cu, ci,
                      Emit(st1, <<StoreBaseDispWide(kSp, outs_offset, low_reg, high_reg)>>)),
                 nci, cu, next_use + 2)
          ELSE NoRangeLoop(ci,
                 Pull(nci, cu, ci, Emit(st1, <<StoreWordDisp(kSp, outs_offset, low_reg)>>)),
                 nci, cu, next_use + 1)

\* DCHECK_LE(info->num_arg_words, 5): a failed check is left in the log
DCheckNumArgWords(ci, st) ==
  IF NumArgWords(ci) <= 5 THEN st ELSE Emit(st, <<Trace("DCHECK_LE failed", NumArgWords(ci))>>)

\* the compact path without the call of next_call_insn that precedes the loads
GenDalvikArgsNoRangeNoFirstPull(ci, st, nci, cu, skip, null_ck) ==
  IF NumArgWords(ci) = 0
  THEN st
  ELSE LET st1 == DCheckNumArgWords(ci, st)
           st2 == IF NumArgWords(ci) > 3
                  THEN IF WideSpansArg3Arg4(ci)
                       THEN NoRangeLoop(ci, StoreSpanningHalf(ci, st1, nci, cu), nci, cu, 4)
                       ELSE NoRangeLoop(ci, st1, nci, cu, 3)
                  ELSE st1
           st3 == LoadArgRegs(ci, st2, nci, cu, skip)
       IN IF null_ck THEN Emit(st3, <<GenNullCheck(kArg(1))>>) ELSE st3

GenDalvikArgsNoRange(ci, st, nci, cu, skip, null_ck) ==
  IF NumArgWords(ci) = 0
  THEN st
  ELSE LET st1 == DCheckNumArgWords(ci, Pull(nci, cu, ci, st))
           st2 == IF NumArgWords(ci) > 3
                  THEN IF WideSpansArg3Arg4(ci)
                       THEN NoRangeLoop(ci, StoreSpanningHalf(ci, st1, nci, cu), nci, cu, 4)
                       ELSE NoRangeLoop(ci, st1, nci, cu, 3)
                  ELSE st1
           st3 == LoadArgRegs(ci, st2, nci, cu, skip)
       IN IF null_ck THEN Emit(st3, <<GenNullCheck(kArg(1))>>) ELSE st3

(* ------------------------------------------------------------------ *)
(* Runtime helper calls used by the marshalling code                   *)
(* ------------------------------------------------------------------ *)
RTgt == <<"r_tgt", 0>>
OpRegCopy(dst, src) == MIns("OpRegCopy", dst, NoReg, src, NoReg, "", 0)
LoadConstant(dst, value) == MIns("LoadConstant", dst, NoReg, NoReg, NoReg, "imm", value)
OpRegRegImm(dst, src, value) == MIns("OpRegRegImm kOpAdd", dst, NoReg, src, NoReg, "imm", value)

\* CallHelperSetup: part 1 is a NOP for x86
CallHelperSetup(cu, helper) ==
  IF cu = "kX86" THEN << >> ELSE <<MIns("LoadHelper", RTgt, NoReg, kSelf, NoReg, helper, 0)>>

\* CallHelper, safepoint_pc as given
CallHelper(cu, helper, safepoint_pc) ==
  (IF cu = "kX86"
   THEN <<MIns("OpThreadMem kOpBlx", NoReg, NoReg, kSelf, NoReg, helper, 0)>>
   ELSE <<MIns("OpReg kOpBlx", NoReg, NoReg, RTgt, NoReg, helper, 0)>>)
  \o (IF safepoint_pc
      THEN <<MIns("MarkSafepointPC", NoReg, NoReg, NoReg, NoReg, "", 0)>>
      ELSE << >>)

CallRuntimeHelperRegRegImm(cu, helper, arg0, arg1, arg2, safepoint_pc) ==
  CallHelperSetup(cu, helper)
  \o (IF kArg(0) = arg1 THEN <<Trace("DCHECK_NE failed", 0)>> ELSE << >>)
  \o <<OpRegCopy(kArg(0), arg0), OpRegCopy(kArg(1), arg1), LoadConstant(kArg(2), arg2)>>
  \o CallHelper(cu, helper, safepoint_pc)

(* ------------------------------------------------------------------ *)
(* The range path                                                      *)
(* ------------------------------------------------------------------ *)
\* "Scan the rest of the args - if in phys_reg flush to memory": the test made
\* on the value that starts at word next_arg
MustFlushArgPlain(loc, next_arg) ==
  IF loc.wide
  THEN next_arg >= 3 /\ loc.location = "kLocPhysReg"
  ELSE next_arg >= 3 /\ loc.location = "kLocPhysReg"
\* the test without the bound on next_arg
MustFlushArgAnyIndex(loc, next_arg) == loc.location = "kLocPhysReg"
MustFlushArg(loc, next_arg) ==
  IF loc.wide
  THEN next_arg >= 2 /\ loc.location = "kLocPhysReg"
  ELSE next_arg >= 3 /\ loc.location = "kLocPhysReg"

RECURSIVE FlushRangeArgs(_, _, _)
FlushRangeArgs(ci, st, next_arg) ==
  IF ~(next_arg < NumArgWords(ci))
  THEN st
  ELSE LET loc == Arg(ci, next_arg)
       IN IF loc.wide
          THEN FlushRangeArgs(ci,
                 IF MustFlushArg(loc, next_arg)
                 THEN Emit(st, <<StoreBaseDispWide(kSp, SRegOffset(ci, next_arg),
                                                   PhysRegOf(next_arg), PhysRegOf(next_arg + 1))>>)
                 ELSE st,
                 next_arg + 2)
          ELSE FlushRangeArgs(ci,
                 IF MustFlushArg(loc, next_arg)
                 THEN Emit(st, <<StoreBaseDisp(kSp, SRegOffset(ci, next_arg),
                                               PhysRegOf(next_arg))>>)
                 ELSE st,
                 next_arg + 1)

\* the vldm/vstm pair using kArg3 as a temp
OpVldm(base, count) == MIns("OpVldm", <<"vfp", 0>>, NoReg, base, NoReg, "", count)
OpVstm(base, count) == MIns("OpVstm", NoReg, NoReg, <<"vfp", 0>>, base, "", count)
RangeCopyVldmVstm(ci, st, nci, cu, outs_offset, start_offset, regs_left) ==
  LET st1 == Emit(Pull(nci, cu, ci, st),
                  <<OpRegRegImm(kArg(3), kSp, start_offset), OpVldm(kArg(3), regs_left)>>)
      st2 == Emit(Pull(nci, cu, ci, st1), <<OpRegRegImm(kArg(3), kSp, 4 + (3 * 4))>>)
      st3 == Emit(Pull(nci, cu, ci, st2), <<OpVstm(kArg(3), regs_left)>>)
  IN Pull(nci, cu, ci, st3)

\* x86: moves through an xmm temp or through kArg3
XmmTemp == <<"xmm", 0>>
OpMovRegMem(disp, kind) == MIns("OpMovRegMem", XmmTemp, NoReg, kSp, NoReg, kind, disp)
OpMovMemReg(disp, kind) == MIns("OpMovMemReg", NoReg, NoReg, XmmTemp, kSp, kind, disp)

\* the 128-bit move with the kind of the store chosen by the source alignment
Move128BothBySource(src_offset, dest_offset) ==
  LET bytes_to_move == 4 * 4
  IN IF src_offset % 16 = 0
     THEN <<OpMovRegMem(src_offset, "kMovA128FP"), OpMovMemReg(dest_offset, "kMovA128FP")>>
     ELSE IF src_offset % 8 = 0
          THEN <<OpMovRegMem(src_offset, "kMovLo128FP"),
                 OpMovRegMem(src_offset + (bytes_to_move \div 2), "kMovHi128FP"),
                 OpMovMemReg(dest_offset, "kMovLo128FP"),
                 OpMovMemReg(dest_offset + (bytes_to_move \div 2), "kMovHi128FP")>>
          ELSE <<OpMovRegMem(src_offset, "kMovU128FP"), OpMovMemReg(dest_offset, "kMovU128FP")>>

Move128(src_offset, dest_offset) ==
  LET bytes_to_move == 4 * 4
      src_is_16b_aligned == src_offset % 16 = 0
      dest_is_16b_aligned == dest_offset % 16 = 0
      src_is_8b_aligned == src_offset % 8 = 0
      dest_is_8b_aligned == dest_offset % 8 = 0
  IN (IF src_is_16b_aligned
      THEN <<OpMovRegMem(src_offset, "kMovA128FP")>>
      ELSE IF src_is_8b_aligned
           THEN <<OpMovRegMem(src_offset, "kMovLo128FP"),
                  OpMovRegMem(src_offset + (bytes_to_move \div 2), "kMovHi128FP")>>
           ELSE <<OpMovRegMem(src_offset, "kMovU128FP")>>)
     \o (IF dest_is_16b_aligned
         THEN <<OpMovMemReg(dest_offset, "kMovA128FP")>>
         ELSE IF dest_is_8b_aligned
              THEN <<OpMovMemReg(dest_offset, "kMovLo128FP"),
                     OpMovMemReg(dest_offset + (bytes_to_move \div 2), "kMovHi128FP")>>
              ELSE <<OpMovMemReg(dest_offset, "kMovU128FP")>>)

\* the 128-bit move taken only while more than 4 words are left
Use128BitMoveMoreThan4(src_offset, dest_offset, regs_left) ==
  regs_left > 4 /\ (src_offset % 16 = 0 \/ dest_offset % 16 = 0)
Use128BitMove(src_offset, dest_offset, regs_left) ==
  \/ regs_left = 4
  \/ (regs_left > 4 /\ (src_offset % 16 = 0 \/ dest_offset % 16 = 0))

RECURSIVE RangeCopyX86(_, _, _, _)
RangeCopyX86(st, current_src_offset, current_dest_offset, regs_left) ==
  IF ~(regs_left > 0)
  THEN st
  ELSE IF Use128BitMove(current_src_offset, current_dest_offset, regs_left)
       THEN RangeCopyX86(Emit(st, Move128(current_src_offset, current_dest_offset)),
                         current_src_offset + 16, current_dest_offset + 16, regs_left - 4)
       ELSE RangeCopyX86(Emit(st, <<LoadWordDisp(kSp, current_src_offset, kArg(3)),
                                    StoreWordDisp(kSp, current_dest_offset, kArg(3))>>),
                         current_src_offset + 4, current_dest_offset + 4, regs_left - 1)

\* "Generate memcpy"
RangeCopyMemcpy(ci, st, cu, outs_offset, start_offset) ==
  Emit(st, <<OpRegRegImm(kArg(0), kSp, outs_offset), OpRegRegImm(kArg(1), kSp, start_offset)>>
           \o CallRuntimeHelperRegRegImm(cu, "pMemcpy", kArg(0), kArg(1),
                                         (NumArgWords(ci) - 3) * 4, FALSE))

\* "If we can treat it as non-range (Jumbo ops will use range form)"
TreatAsNonRangeUpTo4(ci) == NumArgWords(ci) <= 4
TreatAsNonRange(ci) == NumArgWords(ci) <= 5

GenDalvikArgsRange(ci, st, nci, cu, skip, null_ck) ==
  IF TreatAsNonRange(ci)
  THEN GenDalvikArgsNoRange(ci, st, nci, cu, skip, null_ck)
  ELSE LET st0 == FlushRangeArgs(ci, Emit(st, <<Trace("range", NumArgWords(ci))>>), 0)
           outs_offset == 4 + (3 * 4)
           start_offset == SRegOffset(ci, 3)
           regs_left == NumArgWords(ci) - 3
           st1 == Emit(IF regs_left > 0 THEN st0 ELSE Emit(st0, <<Trace("DCHECK_GT failed", 0)>>),
                       <<Trace("copy", regs_left)>>)
           st2 == IF cu = "kThumb2" /\ regs_left <= 16
                  THEN RangeCopyVldmVstm(ci, st1, nci, cu, outs_offset, start_offset, regs_left)
                  ELSE IF cu = "kX86"
                       THEN RangeCopyX86(st1, start_offset, outs_offset, regs_left)
                       ELSE RangeCopyMemcpy(ci, st1, cu, outs_offset, start_offset)
           st3 == Pull(nci, cu, ci, LoadArgRegs(ci, st2, nci, cu, skip))
       IN IF null_ck THEN Emit(st3, <<GenNullCheck(kArg(1))>>) ELSE st3

(* ------------------------------------------------------------------ *)
(* What the emitted instructions do: a symbolic machine                *)
(* ------------------------------------------------------------------ *)
Val(k, i) == [k |-> k, i |-> i]
Undef == Val("undef", 0)

CallerSaveRegs ==
  {kArg(i) : i \in 0..3} \cup {kInvokeTgt, kHiddenArg, kHiddenFpArg, RTgt}
  \cup {<<"xmm", j>> : j \in 0..3} \cup {<<"vfp", j>> : j \in 0..15}
MachineRegs ==
  CallerSaveRegs \cup {kSelf, kSp} \cup {PhysRegOf(w) : w \in 0..MaxArgWords}
MemOffsets == {4 * j : j \in 0..(2 * MaxArgWords + 10)}

Rd(f, k) == IF k \in DOMAIN f THEN f[k] ELSE Undef
Upd(f, k, v) == IF k \in DOMAIN f THEN [f EXCEPT ![k] = v] ELSE f

\* the machine when lowering starts: promoted values are in their registers,
\* the others in their home slots; a promoted value's home slot is stale
InitialMachine(ci) ==
  [regs |-> [r \in MachineRegs |->
               CASE r = kSelf -> Val("self", 0)
                 [] r = kSp -> Val("sp+", 0)
                 [] r[1] = "promoted" /\ r[2] < NumArgWords(ci) ->
                      IF Arg(ci, r[2]).location = "kLocPhysReg" THEN Val("arg", r[2]) ELSE Undef
                 [] OTHER -> Undef],
   mem |-> [o \in MemOffsets |->
              IF \E w \in 0..(NumArgWords(ci) - 1) : SRegOffset(ci, w) = o
              THEN LET w == CHOOSE x \in 0..(NumArgWords(ci) - 1) : SRegOffset(ci, x) = o
                   IN IF Arg(ci, w).location = "kLocDalvikFrame"
                      THEN Val("arg", w) ELSE Val("stale", w)
              ELSE IF o = 0 THEN Val("curr_method", 0) ELSE Undef],
   writes |-> [o \in MemOffsets |-> 0]]

\* a load of the field fld of the object v points to
Deref(v, fld) ==
  CASE v.k = "curr_method" /\ fld = "DexCacheResolvedMethods" -> Val("resolved_methods", 0)
    [] v.k = "resolved_methods" /\ fld = "Data[dex_method_index]" -> Val("target_method", 0)
    [] v = Val("arg", 0) /\ fld = "Class" -> Val("class", 0)
    [] v.k = "class" /\ fld = "VTable" -> Val("vtable", 0)
    [] v.k = "class" /\ fld = "ImTable" -> Val("imtable", 0)
    [] v.k = "vtable" /\ fld = "Data[method_idx]" -> Val("target_method", 0)
    [] v.k = "imtable" /\ fld = "Data[method_idx % kImtSize]" -> Val("target_method", 0)
    [] v.k = "target_method" /\ fld = "EntryPointFromQuickCompiledCode" -> Val("entry_point", 0)
    [] v.k = "self" -> Val(fld, 0)
    [] OTHER -> Val("bad", 0)

Store(m, off, v) ==
  [m EXCEPT !.mem = Upd(m.mem, off, v),
            !.writes = Upd(m.writes, off, Rd(m.writes, off) + 1)]
SetReg(m, r, v) == [m EXCEPT !.regs = Upd(m.regs, r, v)]

\* a block move of count words between memory and consecutive registers
RECURSIVE LoadBlock(_, _, _, _, _)
LoadBlock(m, bank, first, addr, count) ==
  IF count = 0 THEN m
  ELSE LoadBlock(SetReg(m, <<bank, first>>, Rd(m.mem, addr)), bank, first + 1, addr + 4, count - 1)
RECURSIVE StoreBlock(_, _, _, _, _)
StoreBlock(m, bank, first, addr, count) ==
  IF count = 0 THEN m
  ELSE StoreBlock(Store(m, addr, Rd(m.regs, <<bank, first>>)), bank, first + 1, addr + 4,
                  count - 1)
\* memcpy(dst, src, bytes)
RECURSIVE CopyBlock(_, _, _, _)
CopyBlock(m, dst, src, words) ==
  IF words <= 0 THEN m
  ELSE CopyBlock(Store(m, dst, Rd(m.mem, src)), dst + 4, src + 4, words - 1)

Clobber(m) ==
  [m EXCEPT !.regs = [r \in DOMAIN m.regs |->
                        IF r \in CallerSaveRegs THEN Val("clobbered", 0) ELSE m.regs[r]]]

\* a call of a runtime helper made while marshalling
HelperCall(m, helper) ==
  Clobber(IF helper = "pMemcpy"
          THEN CopyBlock(m, Rd(m.regs, kArg(0)).i, Rd(m.regs, kArg(1)).i,
                         Rd(m.regs, kArg(2)).i \div 4)
          ELSE m)

ExecIns(m, x) ==
  CASE x.op \in {"LoadValueDirectFixed"} -> SetReg(m, x.dst, Val("arg", x.imm))
    [] x.op = "LoadValueDirectWideFixed" ->
         SetReg(SetReg(m, x.dst, Val("arg", x.imm)), x.dst2, Val("arg", x.imm + 1))
    [] x.op = "LoadConstant" ->
         SetReg(m, x.dst, IF x.fld = "imm" THEN Val("imm", x.imm) ELSE Val(x.fld, 0))
    [] x.op = "LoadCodeAddress" -> SetReg(m, x.dst, Val("code_address", 0))
    [] x.op = "LoadMethodAddress" -> SetReg(m, x.dst, Val("method_address", 0))
    [] x.op = "LoadCurrMethodDirect" -> SetReg(m, x.dst, Val("curr_method", 0))
    [] x.op = "LoadHelper" -> SetReg(m, x.dst, Val(x.fld, 0))
    [] x.op = "LoadWordDisp" ->
         SetReg(m, x.dst, IF x.fld = "mem" THEN Rd(m.mem, x.imm)
                          ELSE Deref(Rd(m.regs, x.src), x.fld))
    [] x.op \in {"StoreWordDisp", "StoreBaseDisp"} -> Store(m, x.imm, Rd(m.regs, x.src))
    [] x.op = "StoreBaseDispWide" ->
         Store(Store(m, x.imm, Rd(m.regs, x.src)), x.imm + 4, Rd(m.regs, x.src2))
    [] x.op = "OpRegCopy" -> SetReg(m, x.dst, Rd(m.regs, x.src))
    [] x.op = "OpRegRegImm kOpAdd" -> SetReg(m, x.dst, Val("sp+", x.imm))
    [] x.op = "OpVldm" -> LoadBlock(m, "vfp", 0, Rd(m.regs, x.src).i, x.imm)
    [] x.op = "OpVstm" -> StoreBlock(m, "vfp", 0, Rd(m.regs, x.src2).i, x.imm)
    [] x.op = "OpMovRegMem" ->
         (CASE x.fld = "kMovLo128FP" -> LoadBlock(m, "xmm", 0, x.imm, 2)
            [] x.fld = "kMovHi128FP" -> LoadBlock(m, "xmm", 2, x.imm, 2)
            [] OTHER -> LoadBlock(m, "xmm", 0, x.imm, 4))
    [] x.op = "OpMovMemReg" ->
         (CASE x.fld = "kMovLo128FP" -> StoreBlock(m, "xmm", 0, x.imm, 2)
            [] x.fld = "kMovHi128FP" -> StoreBlock(m, "xmm", 2, x.imm, 2)
            [] OTHER -> StoreBlock(m, "xmm", 0, x.imm, 4))
    [] x.by = "marshal" /\ x.op \in {"OpReg kOpBlx", "OpThreadMem kOpBlx"} ->
         HelperCall(m, x.fld)
    [] OTHER -> m

RECURSIVE ExecFrom(_, _, _)
ExecFrom(m, code, i) ==
  IF i > Len(code) THEN m ELSE ExecFrom(ExecIns(m, code[i]), code, i + 1)

\* the machine after the instructions emitted so far
Exec(ci, code) == ExecFrom(InitialMachine(ci), code, 1)

(* ------------------------------------------------------------------ *)
(* GenInvokeNoInline                                                   *)
(* ------------------------------------------------------------------ *)
CIns(op, src, fld) == Ins("call", op, NoReg, NoReg, src, NoReg, fld, 0)

\* the routine, skip_this and p_null_ck chosen from info->type and fast_path
SelectedNextCallInsn(ci) ==
  CASE ci.type = "kInterface" ->
         IF ci.fast_path THEN "NextInterfaceCallInsn" ELSE "NextInterfaceCallInsnWithAccessCheck"
    [] ci.type = "kDirect" -> IF ci.fast_path THEN "NextSDCallInsn" ELSE "NextDirectCallInsnSP"
    [] ci.type = "kStatic" -> IF ci.fast_path THEN "NextSDCallInsn" ELSE "NextStaticCallInsnSP"
    [] ci.type = "kSuper" -> "NextSuperCallInsnSP"
    [] OTHER -> IF ci.fast_path THEN "NextVCallInsn" ELSE "NextVCallInsnSP"

SelectedSkipThisAnyVirtual(ci) ==
  CASE ci.type = "kInterface" -> ci.fast_path
    [] ci.type = "kDirect" -> FALSE
    [] ci.type = "kStatic" -> FALSE
    [] ci.type = "kSuper" -> FALSE
    [] OTHER -> TRUE

SelectedSkipThis(ci) ==
  CASE ci.type = "kInterface" -> ci.fast_path
    [] ci.type = "kDirect" -> FALSE
    [] ci.type = "kStatic" -> FALSE
    [] ci.type = "kSuper" -> FALSE
    [] OTHER -> ci.fast_path

\* p_null_ck set for every direct call
SelectedNullCkAnyDirect(ci) == ci.type = "kDirect"
SelectedNullCk(ci) == ci.type = "kDirect" /\ ci.fast_path

\* the trampoline the x86 call instruction names
CallTrampoline(ci) ==
  CASE ci.type = "kInterface" -> "pInvokeInterfaceTrampolineWithAccessCheck"
    [] ci.type = "kDirect" -> "pInvokeDirectTrampolineWithAccessCheck"
    [] ci.type = "kStatic" -> "pInvokeStaticTrampolineWithAccessCheck"
    [] ci.type = "kSuper" -> "pInvokeSuperTrampolineWithAccessCheck"
    [] ci.type = "kVirtual" -> "pInvokeVirtualTrampolineWithAccessCheck"

\* the call instruction
CallInst(cu, ci) ==
  IF cu # "kX86"
  THEN CIns("OpReg kOpBlx", kInvokeTgt, "")
  ELSE IF ci.fast_path
       THEN IF ci.direct_code = -1
            THEN CIns("CallWithLinkerFixup", NoReg, "target_method")
            ELSE CIns("OpMem kOpBlx", kArg(0), "EntryPointFromQuickCompiledCode")
       ELSE CIns("OpThreadMem kOpBlx", kSelf, CallTrampoline(ci))

\* the condition of "while (call_state >= 0)"
DrainContinuesPositive(state) == state > 0
DrainContinues(state) == state >= 0

\* info->result: absent, or a narrow / wide value of either register class
ResultLocs ==
  {[location |-> "kLocInvalid", wide |-> FALSE, fp |-> FALSE]}
  \cup [location : {"kLocDalvikFrame"}, wide : BOOLEAN, fp : BOOLEAN]

\* info->result before GenInvokeNoInline or an intrinsic has read it
ResultUnread == [location |-> "unread", wide |-> FALSE, fp |-> FALSE]

\* GenNullCheck(reg, info->opt_flags): no check is emitted once the value is
\* known to have been checked
NullChecksApplied(code, flags) ==
  IF "MIR_IGNORE_NULL_CHECK" \in flags
  THEN SelectSeq(code, LAMBDA x : x.op # "GenNullCheck")
  ELSE code

\* the variables of the other operations while they do not run
NoIntrinsic ==
  [name |-> "none", is_const |-> FALSE, const_high |-> FALSE, zero_based |-> FALSE,
   is_empty |-> FALSE, size |-> "kWord", overlap |-> FALSE, is_long |-> FALSE,
   is_object |-> FALSE, is_volatile |-> FALSE, is_ordered |-> FALSE]
IntrinsicIdle == intrinsic = NoIntrinsic /\ launchpads = << >>
RangeIdle ==
  /\ rc_pc = "idle"
  /\ rc_src_offset = 0 /\ rc_dest_offset = 0 /\ rc_regs_left = 0
HelperIdle ==
  /\ rh_pc = "idle" /\ rh_variant = "none" /\ rh_arg0 = NoReg /\ rh_arg1 = NoReg
\* no fast path is executed
NoOperands ==
  [idx |-> 0, count |-> 0, char |-> 0,
   alloc |-> [i_lo |-> "r0", i_hi |-> "r1", result_lo |-> "r2", result_hi |-> "r3"],
   regs |-> << >>]
RunIdle == operands = NoOperands /\ outcome = "none"

\* the result move taking the narrow return location for every result
MoveResultNarrowOnly(rl) ==
  IF rl.location # "kLocInvalid"
  THEN <<Ins("result", "StoreValue", NoReg, NoReg, NoReg, NoReg,
             IF rl.fp THEN "GetReturn(fp)" ELSE "GetReturn(core)", 0)>>
  ELSE << >>

\* "We have a following MOVE_RESULT - do it now."
MoveResult(rl) ==
  IF rl.location # "kLocInvalid"
  THEN IF rl.wide
       THEN <<Ins("result", "StoreValueWide", NoReg, NoReg, NoReg, NoReg,
                  IF rl.fp THEN "GetReturnWide(fp)" ELSE "GetReturnWide(core)", 0)>>
       ELSE <<Ins("result", "StoreValue", NoReg, NoReg, NoReg, NoReg,
                  IF rl.fp THEN "GetReturn(fp)" ELSE "GetReturn(core)", 0)>>
  ELSE << >>

(* ------------------------------------------------------------------ *)
(* The calls a method can contain                                      *)
(* ------------------------------------------------------------------ *)
\* home offsets of args[3]; at least past the outs area of the largest call
StartOffsets == {4 * (MaxArgWords + 10) + d : d \in {0, 4, 8, 12}}

UpTo(n) == UNION {ArgLists(k) : k \in 0..n}

WellFormedCall(cu, ci) ==
  /\ ci.type = "kSuper" => ~ci.fast_path                 \* DCHECK(!fast_path)
  /\ ~ci.is_range => NumArgWords(ci) <= 5                \* the compact encoding
  /\ ci.type # "kStatic" =>                              \* the receiver is a reference
       (NumArgWords(ci) >= 1 /\ ~Arg(ci, 0).wide)
  /\ ~(ci.fast_path /\ ci.type \in {"kStatic", "kDirect"}) =>
       (ci.direct_code = 0 /\ ci.direct_method = 0)
  \* the value of start_offset is looked at by the x86 transfer loop only
  /\ ~(cu = "kX86" /\ ci.is_range /\ NumArgWords(ci) > 5) =>
       ci.start_offset = 4 * (MaxArgWords + 10)

CallInfos ==
  [type : InvokeTypes, fast_path : BOOLEAN, is_range : BOOLEAN, args : UpTo(MaxArgWords),
   direct_code : DirectValues, direct_method : DirectValues, start_offset : StartOffsets]

Init ==
  /\ arch \in InstructionSets
  /\ info \in {ci \in CallInfos : WellFormedCall(arch, ci)}
  /\ pc = "start"
  /\ call_state = 0
  /\ next_call_insn = "none"
  /\ skip_this = FALSE
  /\ p_null_ck = FALSE
  /\ lir = << >>
  /\ result = ResultUnread
  /\ opt_flags = {}
  /\ fi_pc = "idle" /\ fi_num_ins = 0 /\ fi_i = 0 /\ fi_cur = << >> /\ fi_lir = << >>
  /\ IntrinsicIdle /\ RangeIdle /\ HelperIdle /\ RunIdle

\* FlushAllRegs, LockCallTemps and the choice of the dispatch routine
SelectCallInsn ==
  /\ pc = "start"
  /\ next_call_insn' = SelectedNextCallInsn(info)
  /\ skip_this' = SelectedSkipThis(info)
  /\ p_null_ck' = SelectedNullCk(info)
  /\ lir' = lir \o <<Trace("FlushAllRegs", 0), Trace("LockCallTemps", 0)>>
  /\ pc' = "args"
  /\ UNCHANGED <<arch, info, call_state, result, opt_flags>>
  /\ UNCHANGED nonInvokeVars

\* GenDalvikArgsNoRange or GenDalvikArgsRange, by info->is_range
GenDalvikArgs ==
  /\ pc = "args"
  /\ LET st == [cs |-> call_state, lir |-> lir]
         r == IF ~info.is_range
              THEN GenDalvikArgsNoRange(info, st, next_call_insn, arch, skip_this, p_null_ck)
              ELSE GenDalvikArgsRange(info, st, next_call_insn, arch, skip_this, p_null_ck)
     IN /\ call_state' = r.cs
        /\ lir' = lir \o NullChecksApplied(SubSeq(r.lir, Len(lir) + 1, Len(r.lir)), opt_flags)
  /\ pc' = "drain"
  /\ UNCHANGED <<arch, info, next_call_insn, skip_this, p_null_ck, result, opt_flags>>
  /\ UNCHANGED nonInvokeVars

\* "Finish up any of the call sequence not interleaved in arg loading"
DrainCallInsn ==
  /\ pc = "drain"
  /\ DrainContinues(call_state)
  /\ LET r == Pull(next_call_insn, arch, info, [cs |-> call_state, lir |-> lir])
     IN /\ call_state' = r.cs
        /\ lir' = lir \o NullChecksApplied(SubSeq(r.lir, Len(lir) + 1, Len(r.lir)), opt_flags)
  /\ UNCHANGED <<arch, info, pc, next_call_insn, skip_this, p_null_ck, result, opt_flags>>
  /\ UNCHANGED nonInvokeVars

\* the call instruction and MarkSafepointPC
EmitCall ==
  /\ pc = "drain"
  /\ ~DrainContinues(call_state)
  /\ lir' = lir \o <<CallInst(arch, info), CIns("MarkSafepointPC", NoReg, "")>>
  /\ pc' = "called"
  /\ UNCHANGED <<arch, info, call_state, next_call_insn, skip_this, p_null_ck, result,
                 opt_flags>>
  /\ UNCHANGED nonInvokeVars

\* ClobberCallerSave and the move of the result
FinishInvoke ==
  /\ pc = "called"
  /\ \E rl \in ResultLocs :
       /\ result' = rl
       /\ lir' = lir \o <<Trace("ClobberCallerSave", 0)>> \o MoveResult(rl)
  /\ pc' = "done"
  /\ UNCHANGED <<arch, info, call_state, next_call_insn, skip_this, p_null_ck, opt_flags>>
  /\ UNCHANGED nonInvokeVars

Next ==
  \/ SelectCallInsn
  \/ GenDalvikArgs
  \/ DrainCallInsn
  \/ EmitCall
  \/ FinishInvoke

Spec == Init /\ [][Next]_vars

(* ------------------------------------------------------------------ *)
(* FlushIns                                                            *)
(* ------------------------------------------------------------------ *)
INVALID_REG == -1
FIns(op, dst, src, fld, imm) == Ins("flush", op, dst, NoReg, src, NoReg, fld, imm)
\* v_map->core_reg and v_map->FpReg of incoming word i
CoreRegOf(i) == <<"core_reg", i>>
FpRegOf(v_map) == <<"fp_reg", v_map.FpReg>>
\* the register incoming word i arrives in
ArgRegOf(i) == <<"in_reg", i>>

\* one entry of promotion_map_: FpReg is a register iff fp_location is kLocPhysReg
PromotionMaps ==
  {m \in [core_location : Locations, fp_location : Locations, FpReg : INVALID_REG..MaxFpReg] :
     (m.fp_location = "kLocPhysReg") <=> (m.FpReg # INVALID_REG)}
\* one entry of ArgLocs
ArgLocRecs == [wide : BOOLEAN, fp : BOOLEAN, high_word : BOOLEAN]

\* the copy made whenever the virtual register has a core promotion
CopyToPromotedAnyType(i, reg, t_loc, v_map) ==
  IF v_map.core_location = "kLocPhysReg"
  THEN <<FIns("OpRegCopy", CoreRegOf(i), reg, "", 0)>>
  ELSE IF v_map.fp_location = "kLocPhysReg" /\ t_loc.fp
       THEN <<FIns("OpRegCopy", FpRegOf(v_map), reg, "", 0)>>
       ELSE << >>

\* "If arriving in register": the copy to the promoted register of the matching type
CopyToPromoted(i, reg, t_loc, v_map) ==
  IF v_map.core_location = "kLocPhysReg" /\ ~t_loc.fp
  THEN <<FIns("OpRegCopy", CoreRegOf(i), reg, "", 0)>>
  ELSE IF v_map.fp_location = "kLocPhysReg" /\ t_loc.fp
       THEN <<FIns("OpRegCopy", FpRegOf(v_map), reg, "", 0)>>
       ELSE << >>

\* "Is only half promoted?"
HalfPromotedCoreOnly(v_map, p_map) == p_map.core_location # v_map.core_location
HalfPromoted(v_map, p_map) ==
  \/ p_map.core_location # v_map.core_location
  \/ p_map.fp_location # v_map.fp_location

\* the two single registers are not usable as a double
UnusablePairAdjacencyOnly(low_reg, high_reg) == high_reg # low_reg + 1
UnusablePair(low_reg, high_reg) ==
  \/ low_reg % 2 # 0
  \/ high_reg # low_reg + 1

\* need_flush of a word arriving in a register; low_map and high_map are the
\* promotion entries of the low and the high word of a wide value
NeedFlush(cu, i, reg, t_loc, v_map, p_map, low_map, high_map) ==
  LET copied == CopyToPromoted(i, reg, t_loc, v_map) # << >>
      forced == IF t_loc.wide THEN ~copied \/ HalfPromoted(v_map, p_map) ELSE ~copied
  IN IF t_loc.wide /\ cu = "kThumb2" /\ t_loc.fp /\ ~forced
     THEN UnusablePair(low_map.FpReg, high_map.FpReg)
     ELSE forced

\* the load into the floating register made only without a core promotion
LoadPromotedEitherOr(i, v_map) ==
  IF v_map.core_location = "kLocPhysReg"
  THEN <<FIns("LoadWordDisp", CoreRegOf(i), kSp, "SRegOffset", i)>>
  ELSE IF v_map.fp_location = "kLocPhysReg"
       THEN <<FIns("LoadWordDisp", FpRegOf(v_map), kSp, "SRegOffset", i)>>
       ELSE << >>

\* "If arriving in frame & promoted"
LoadPromoted(i, v_map) ==
  (IF v_map.core_location = "kLocPhysReg"
   THEN <<FIns("LoadWordDisp", CoreRegOf(i), kSp, "SRegOffset", i)>> ELSE << >>)
  \o (IF v_map.fp_location = "kLocPhysReg"
      THEN <<FIns("LoadWordDisp", FpRegOf(v_map), kSp, "SRegOffset", i)>> ELSE << >>)

\* one iteration of the loop of FlushIns for the word w (its index, whether it
\* arrives in a register, its ArgLocs and promotion_map_ entries); other is the
\* other word of a wide value
FlushInsIteration(cu, w, other) ==
  LET reg == IF w.in_reg THEN ArgRegOf(w.i) ELSE NoReg
      low_map == IF w.t_loc.high_word THEN other.v_map ELSE w.v_map
      high_map == IF w.t_loc.high_word THEN w.v_map ELSE other.v_map
      need_flush == NeedFlush(cu, w.i, reg, w.t_loc, w.v_map, other.v_map, low_map, high_map)
  IN IF w.in_reg
     THEN [w EXCEPT !.done = TRUE, !.need_flush = need_flush,
                    !.emit = CopyToPromoted(w.i, reg, w.t_loc, w.v_map)
                             \o (IF need_flush
                                 THEN <<FIns("StoreBaseDisp", NoReg, reg, "SRegOffset", w.i)>>
                                 ELSE << >>)]
     ELSE [w EXCEPT !.done = TRUE, !.emit = LoadPromoted(w.i, w.v_map)]

\* an incoming word before its iteration
InWord(i, in_reg, t_loc, v_map) ==
  [i |-> i, in_reg |-> in_reg, t_loc |-> t_loc, v_map |-> v_map,
   done |-> FALSE, need_flush |-> FALSE, emit |-> << >>]

\* the CallInfo of the invoke variables while FlushIns runs
NoCall ==
  [type |-> "kStatic", fast_path |-> TRUE, is_range |-> FALSE, args |-> << >>,
   direct_code |-> 0, direct_method |-> 0, start_offset |-> 4 * (MaxArgWords + 10)]

InitFlushIns ==
  /\ arch \in InstructionSets
  /\ info = NoCall
  /\ pc = "none"
  /\ call_state = 0
  /\ next_call_insn = "none"
  /\ skip_this = FALSE
  /\ p_null_ck = FALSE
  /\ lir = << >>
  /\ result = ResultUnread
  /\ opt_flags = {}
  /\ IntrinsicIdle /\ RangeIdle /\ HelperIdle /\ RunIdle
  /\ fi_pc = "entry"
  /\ fi_num_ins \in 0..MaxIns
  /\ fi_i = 0
  /\ fi_cur = << >>
  /\ fi_lir = << >>

\* StoreValue(rl_method, rl_src), and the explicit flush of a promoted Method*
RehomeMethodNoFlush(location) ==
  <<FIns("StoreValue", <<"rl_method", 0>>, kArg(0), location, 0)>>
RehomeMethod(location) ==
  <<FIns("StoreValue", <<"rl_method", 0>>, kArg(0), location, 0)>>
  \o (IF location = "kLocPhysReg"
      THEN <<FIns("StoreWordDisp", NoReg, kArg(0), "sp", 0)>>
      ELSE << >>)

\* the incoming Method* is stored to its home, and flushed when promoted
FlushInsEntry ==
  /\ fi_pc = "entry"
  /\ \E location \in Locations : fi_lir' = RehomeMethod(location)
  /\ fi_pc' = IF fi_num_ins = 0 THEN "done" ELSE "loop"
  /\ UNCHANGED <<fi_num_ins, fi_i, fi_cur>>
  /\ UNCHANGED nonFlushVars

\* iteration i of the loop, on the first word of a value: its ArgLocs and
\* promotion_map_ entries (and those of the high word of a wide value) are read
FlushInsFirstWord ==
  /\ fi_pc = "loop"
  /\ fi_i < fi_num_ins
  /\ \A k \in 1..Len(fi_cur) : fi_cur[k].done
  /\ \E wide \in BOOLEAN, fp \in BOOLEAN, in_reg \in BOOLEAN, v_map \in PromotionMaps :
       IF ~wide
       THEN fi_cur' = <<FlushInsIteration(arch,
                          InWord(fi_i, in_reg, [wide |-> FALSE, fp |-> fp, high_word |-> FALSE], v_map),
                          InWord(fi_i, in_reg, [wide |-> FALSE, fp |-> fp, high_word |-> FALSE], v_map))>>
       ELSE /\ fi_i + 1 < fi_num_ins
            /\ \E high_in_reg \in BOOLEAN, p_map \in PromotionMaps :
                 LET low == InWord(fi_i, in_reg,
                                   [wide |-> TRUE, fp |-> fp, high_word |-> FALSE], v_map)
                     high == InWord(fi_i + 1, high_in_reg,
                                    [wide |-> TRUE, fp |-> fp, high_word |-> TRUE], p_map)
                 IN fi_cur' = <<FlushInsIteration(arch, low, high), high>>
  /\ fi_i' = fi_i + 1
  /\ fi_pc' = IF fi_i + 1 < fi_num_ins THEN "loop" ELSE "done"
  /\ UNCHANGED <<fi_num_ins, fi_lir>>
  /\ UNCHANGED nonFlushVars

\* iteration i of the loop, on the high word of a wide value
FlushInsHighWord ==
  /\ fi_pc = "loop"
  /\ fi_i < fi_num_ins
  /\ Len(fi_cur) = 2 /\ ~fi_cur[2].done
  /\ fi_cur' = <<fi_cur[1], FlushInsIteration(arch, fi_cur[2], fi_cur[1])>>
  /\ fi_i' = fi_i + 1
  /\ fi_pc' = IF fi_i + 1 < fi_num_ins THEN "loop" ELSE "done"
  /\ UNCHANGED <<fi_num_ins, fi_lir>>
  /\ UNCHANGED nonFlushVars

NextFlushIns ==
  \/ FlushInsEntry
  \/ FlushInsFirstWord
  \/ FlushInsHighWord

SpecFlushIns == InitFlushIns /\ [][NextFlushIns]_vars

(* ------------------------------------------------------------------ *)
(* Intrinsics and their launchpads                                     *)
(* ------------------------------------------------------------------ *)
GIns(op, fld, imm) == Ins("intrinsic", op, NoReg, NoReg, NoReg, NoReg, fld, imm)
\* a conditional branch whose target is the launchpad
GuardBranch(op, fld) == GIns(op, fld, 1)

IntrinsicNames ==
  {"CharAt", "StringIsEmptyOrLength", "ReverseBytes", "AbsInt", "AbsLong", "AbsFloat",
   "AbsDouble", "FloatCvt", "DoubleCvt", "IndexOf", "StringCompareTo", "CurrentThread",
   "UnsafeGet", "UnsafePut"}
OptFlags == {"MIR_IGNORE_NULL_CHECK", "MIR_IGNORE_RANGE_CHECK"}

\* what a generator leaves behind: its return value, the instructions it
\* emitted, info->opt_flags, and the launchpad it registered (cont: whether a
\* resume label was passed)
Generated(handled, emit, flags, launchpad) ==
  [handled |-> handled, emit |-> emit, flags |-> flags, launchpad |-> launchpad]
\* "return false" after the locking of the call temps
DeclinedAfterLocking(flags) ==
  Generated(FALSE, <<Trace("ClobberCallerSave", 0), Trace("LockCallTemps", 0)>>, flags, << >>)
\* "return false" at the head of a generator
Declined(flags) == Generated(FALSE, << >>, flags, << >>)

\* info->opt_flags |= MIR_IGNORE_NULL_CHECK
MarkNullCheckedDropped(flags) == flags
MarkNullChecked(flags) == flags \cup {"MIR_IGNORE_NULL_CHECK"}

\* GenNullCheck(reg, info->opt_flags) of an intrinsic
IntrinsicNullCheck(what, flags) ==
  NullChecksApplied(<<GIns("GenNullCheck", what, 0)>>, flags)

GenInlinedCharAt(cu, it, flags) ==
  IF cu = "kMips" THEN Declined(flags)
  ELSE
    LET range_check == "MIR_IGNORE_RANGE_CHECK" \notin flags
        load == <<GIns("LoadValue", "rl_obj", 0)>>
                \o (IF ~(cu = "kX86" /\ it.is_const)
                    THEN <<GIns("LoadValue", "rl_idx", 0)>> ELSE << >>)
                \o IntrinsicNullCheck("rl_obj", flags)
        guarded ==
          IF cu # "kX86"
          THEN (IF range_check
                THEN <<GIns("LoadWordDisp", "reg_max = rl_obj.count", 0),
                       GIns("MarkPossibleNullPointerException", "", 0)>>
                ELSE << >>)
               \o <<GIns("LoadWordDisp", "reg_off = rl_obj.offset", 0),
                    GIns("MarkPossibleNullPointerException", "", 0),
                    GIns("LoadWordDisp", "reg_ptr = rl_obj.value", 0)>>
               \o (IF range_check
                   THEN <<GIns("OpRegReg kOpCmp", "rl_idx, reg_max", 0),
                          GuardBranch("OpCondBranch", "kCondUge")>>
                   ELSE << >>)
               \o <<GIns("OpRegImm kOpAdd", "reg_ptr, data_offset", 0)>>
          ELSE (IF range_check
                THEN IF it.is_const
                     THEN <<GuardBranch("OpCmpMemImmBranch", "kCondUlt rl_obj.count, idx")>>
                     ELSE <<GIns("OpRegMem kOpCmp", "rl_idx, rl_obj.count", 0),
                            GuardBranch("OpCondBranch", "kCondUge")>>
                ELSE << >>)
               \o <<GIns("LoadWordDisp", "reg_off = rl_obj.offset", 0),
                    GIns("LoadWordDisp", "reg_ptr = rl_obj.value", 0)>>
        fetch ==
          <<IF it.is_const THEN GIns("OpRegImm kOpAdd", "reg_off, idx", 0)
            ELSE GIns("OpRegReg kOpAdd", "reg_off, rl_idx", 0)>>
          \o <<IF cu # "kX86" THEN GIns("LoadBaseIndexed", "reg_ptr, reg_off", 0)
               ELSE GIns("LoadBaseIndexedDisp", "reg_ptr, reg_off, data_offset", 0)>>
          \o <<GIns("StoreValue", "InlineTarget(info)", 0)>>
    IN IF range_check
       THEN Generated(TRUE, load \o guarded \o fetch, MarkNullChecked(flags),
                      <<[cont |-> FALSE]>>)
       ELSE Generated(TRUE, load \o guarded \o fetch, flags, << >>)

GenInlinedStringIsEmptyOrLength(cu, it, flags) ==
  IF cu = "kMips" THEN Declined(flags)
  ELSE Generated(TRUE,
         <<GIns("LoadValue", "rl_obj", 0)>>
         \o IntrinsicNullCheck("rl_obj", flags)
         \o <<GIns("LoadWordDisp", "rl_result = rl_obj.count", 0),
              GIns("MarkPossibleNullPointerException", "", 0)>>
         \o (IF it.is_empty
             THEN IF cu = "kThumb2"
                  THEN <<GIns("OpRegReg kOpNeg", "t_reg, rl_result", 0),
                         GIns("OpRegRegReg kOpAdc", "rl_result, rl_result, t_reg", 0)>>
                  ELSE <<GIns("OpRegImm kOpSub", "rl_result, 1", 0),
                         GIns("OpRegImm kOpLsr", "rl_result, 31", 0)>>
             ELSE << >>)
         \o <<GIns("StoreValue", "InlineTarget(info)", 0)>>,
         flags, << >>)

\* the reversal reading the low source register in both cases
GenInlinedReverseBytesNoTemp(cu, it, flags) ==
  IF cu = "kMips" THEN Declined(flags)
  ELSE Generated(TRUE,
         IF it.size = "kLong"
         THEN <<GIns("LoadValueWide", "rl_src_i", 0)>>
              \o <<GIns("OpRegReg kOpRev", "rl_result.lo, rl_i.hi", 0),
                   GIns("OpRegReg kOpRev", "rl_result.hi, r_i_low", 0),
                   GIns("StoreValueWide", "InlineTargetWide(info)", 0)>>
         ELSE <<GIns("LoadValue", "rl_src_i", 0),
                GIns(IF it.size = "kWord" THEN "OpRegReg kOpRev" ELSE "OpRegReg kOpRevsh",
                     "rl_result, rl_i", 0),
                GIns("StoreValue", "InlineTarget(info)", 0)>>,
         flags, << >>)

GenInlinedReverseBytes(cu, it, flags) ==
  IF cu = "kMips" THEN Declined(flags)
  ELSE Generated(TRUE,
         IF it.size = "kLong"
         THEN <<GIns("LoadValueWide", "rl_src_i", 0)>>
              \o (IF it.overlap THEN <<GIns("OpRegCopy", "r_i_low, rl_i.lo", 0)>> ELSE << >>)
              \o <<GIns("OpRegReg kOpRev", "rl_result.lo, rl_i.hi", 0),
                   GIns("OpRegReg kOpRev", "rl_result.hi, r_i_low", 0),
                   GIns("StoreValueWide", "InlineTargetWide(info)", 0)>>
         ELSE <<GIns("LoadValue", "rl_src_i", 0),
                GIns(IF it.size = "kWord" THEN "OpRegReg kOpRev" ELSE "OpRegReg kOpRevsh",
                     "rl_result, rl_i", 0),
                GIns("StoreValue", "InlineTarget(info)", 0)>>,
         flags, << >>)

GenInlinedAbsInt(cu, it, flags) ==
  IF cu = "kMips" THEN Declined(flags)
  ELSE Generated(TRUE,
         <<GIns("LoadValue", "rl_src", 0),
           GIns("OpRegRegImm kOpAsr", "sign_reg, rl_src, 31", 0),
           GIns("OpRegRegReg kOpAdd", "rl_result, rl_src, sign_reg", 0),
           GIns("OpRegReg kOpXor", "rl_result, sign_reg", 0),
           GIns("StoreValue", "InlineTarget(info)", 0)>>,
         flags, << >>)

GenInlinedAbsLong(cu, it, flags) ==
  IF cu = "kMips" THEN Declined(flags)
  ELSE Generated(TRUE,
         <<GIns("LoadValueWide", "rl_src", 0)>>
         \o (IF cu = "kThumb2"
             THEN <<GIns("OpRegRegImm kOpAsr", "sign_reg, rl_src.hi, 31", 0),
                    GIns("OpRegRegReg kOpAdd", "rl_result.lo, rl_src.lo, sign_reg", 0),
                    GIns("OpRegRegReg kOpAdc", "rl_result.hi, rl_src.hi, sign_reg", 0)>>
             ELSE <<GIns("OpRegCopyWide", "rl_result, rl_src", 0),
                    GIns("OpRegRegImm kOpAsr", "sign_reg, rl_result.hi, 31", 0),
                    GIns("OpRegReg kOpAdd", "rl_result.lo, sign_reg", 0),
                    GIns("OpRegReg kOpAdc", "rl_result.hi, sign_reg", 0)>>)
         \o <<GIns("OpRegReg kOpXor", "rl_result.lo, sign_reg", 0),
              GIns("OpRegReg kOpXor", "rl_result.hi, sign_reg", 0),
              GIns("StoreValueWide", "InlineTargetWide(info)", 0)>>,
         flags, << >>)

GenInlinedAbsFloat(cu, it, flags) ==
  IF cu = "kMips" THEN Declined(flags)
  ELSE Generated(TRUE,
         <<GIns("LoadValue", "rl_src", 0),
           GIns("LoadConstant", "signMask, 0x7fffffff", 0),
           GIns("OpRegRegReg kOpAnd", "rl_result, rl_src, signMask", 0),
           GIns("StoreValue", "InlineTarget(info)", 0)>>,
         flags, << >>)

GenInlinedAbsDouble(cu, it, flags) ==
  IF cu = "kMips" THEN Declined(flags)
  ELSE Generated(TRUE,
         <<GIns("LoadValueWide", "rl_src", 0),
           GIns("OpRegCopyWide", "rl_result, rl_src", 0),
           GIns("LoadConstant", "signMask, 0x7fffffff", 0),
           GIns("OpRegReg kOpAnd", "rl_result.hi, signMask", 0),
           GIns("StoreValueWide", "InlineTargetWide(info)", 0)>>,
         flags, << >>)

GenInlinedFloatCvt(cu, it, flags) ==
  IF cu = "kMips" THEN Declined(flags)
  ELSE Generated(TRUE, <<GIns("StoreValue", "InlineTarget(info), rl_src", 0)>>, flags, << >>)

GenInlinedDoubleCvt(cu, it, flags) ==
  IF cu = "kMips" THEN Declined(flags)
  ELSE Generated(TRUE, <<GIns("StoreValueWide", "InlineTargetWide(info), rl_src", 0)>>,
                 flags, << >>)

\* the jump back a launchpad ends with
LaunchpadTailNoResume(lp) == << >>
LaunchpadTail(lp) ==
  IF lp.cont THEN <<Ins("launchpad", "OpUnconditionalBranch", NoReg, NoReg, NoReg, NoReg,
                        "cont_", 1)>>
  ELSE << >>

\* the string search with its resume label placed ahead of the helper call
GenInlinedIndexOfResumeBeforeCall(cu, it, flags) ==
  IF cu = "kMips" THEN Declined(flags)
  ELSE IF it.is_const /\ it.const_high THEN Declined(flags)
  ELSE
    LET head ==
          <<Trace("ClobberCallerSave", 0), Trace("LockCallTemps", 0),
            GIns("LoadValueDirectFixed", "rl_obj, kArg0", 0),
            GIns("LoadValueDirectFixed", "rl_char, kArg1", 0),
            IF it.zero_based THEN GIns("LoadConstant", "kArg2, 0", 0)
            ELSE GIns("LoadValueDirectFixed", "rl_start, kArg2", 0),
            GIns("LoadHelper", "pIndexOf", 0)>>
          \o IntrinsicNullCheck("kArg0", flags)
        call == <<GIns("OpReg kOpBlx", "r_tgt", 0)>>
        store == <<GIns("StoreValue", "InlineTarget(info), GetReturn", 0)>>
    IN IF ~it.is_const
       THEN Generated(TRUE,
              head \o <<GuardBranch("OpCmpImmBranch", "kCondGt kArg1, 0xFFFF")>>
                   \o <<GIns("kPseudoTargetLabel", "resume_tgt", 1)>> \o call \o store,
              MarkNullChecked(flags), <<[cont |-> TRUE]>>)
       ELSE Generated(TRUE, head \o call \o store, flags, << >>)

GenInlinedIndexOf(cu, it, flags) ==
  IF cu = "kMips" THEN Declined(flags)
  ELSE IF it.is_const /\ it.const_high THEN Declined(flags)
  ELSE
    LET head ==
          <<Trace("ClobberCallerSave", 0), Trace("LockCallTemps", 0),
            GIns("LoadValueDirectFixed", "rl_obj, kArg0", 0),
            GIns("LoadValueDirectFixed", "rl_char, kArg1", 0),
            IF it.zero_based THEN GIns("LoadConstant", "kArg2, 0", 0)
            ELSE GIns("LoadValueDirectFixed", "rl_start, kArg2", 0),
            GIns("LoadHelper", "pIndexOf", 0)>>
          \o IntrinsicNullCheck("kArg0", flags)
        call == <<GIns("OpReg kOpBlx", "r_tgt", 0)>>
        store == <<GIns("StoreValue", "InlineTarget(info), GetReturn", 0)>>
    IN IF ~it.is_const
       THEN Generated(TRUE,
              head \o <<GuardBranch("OpCmpImmBranch", "kCondGt kArg1, 0xFFFF")>> \o call
                   \o <<GIns("kPseudoTargetLabel", "resume_tgt", 1)>> \o store,
              MarkNullChecked(flags), <<[cont |-> TRUE]>>)
       ELSE Generated(TRUE, head \o call \o store, flags, << >>)

GenInlinedStringCompareTo(cu, it, flags) ==
  IF cu = "kMips" THEN Declined(flags)
  ELSE Generated(TRUE,
         <<Trace("ClobberCallerSave", 0), Trace("LockCallTemps", 0),
           GIns("LoadValueDirectFixed", "rl_this, kArg0", 0),
           GIns("LoadValueDirectFixed", "rl_cmp, kArg1", 0)>>
         \o (IF cu # "kX86" THEN <<GIns("LoadHelper", "pStringCompareTo", 0)>> ELSE << >>)
         \o IntrinsicNullCheck("kArg0", flags)
         \o <<GuardBranch("OpCmpImmBranch", "kCondEq kArg1, 0")>>
         \o <<IF cu # "kX86" THEN GIns("OpReg kOpBlx", "r_tgt", 0)
              ELSE GIns("OpThreadMem kOpBlx", "pStringCompareTo", 0)>>
         \o <<GIns("StoreValue", "InlineTarget(info), GetReturn", 0)>>,
         MarkNullChecked(flags), <<[cont |-> FALSE]>>)

GenInlinedCurrentThread(cu, it, flags) ==
  Generated(TRUE,
    <<IF cu \in {"kThumb2", "kMips"} THEN GIns("LoadWordDisp", "rl_result = kSelf.peer", 0)
      ELSE GIns("OpRegThreadMem kOpMov", "rl_result = peer", 0),
      GIns("StoreValue", "InlineTarget(info)", 0)>>,
    flags, << >>)

GenInlinedUnsafeGet(cu, it, flags) ==
  IF cu = "kMips" THEN Declined(flags)
  ELSE Generated(TRUE,
         (IF it.is_volatile THEN <<GIns("GenMemBarrier", "kLoadLoad", 0)>> ELSE << >>)
         \o <<GIns("LoadValue", "rl_src_obj", 0), GIns("LoadValue", "rl_src_offset", 0)>>
         \o (IF it.is_long
             THEN <<GIns("OpRegReg kOpAdd", "rl_object, rl_offset", 0),
                    GIns("LoadBaseDispWide", "rl_result, rl_object", 0),
                    GIns("StoreValueWide", "InlineTargetWide(info)", 0)>>
             ELSE <<GIns("LoadBaseIndexed", "rl_result, rl_object, rl_offset", 0),
                    GIns("StoreValue", "InlineTarget(info)", 0)>>),
         flags, << >>)

\* the put whose first barrier is emitted for a volatile put only
GenInlinedUnsafePutOrderedUnfenced(cu, it, flags) ==
  IF cu = "kMips" THEN Declined(flags)
  ELSE Generated(TRUE,
         (IF it.is_volatile
          THEN <<GIns("GenMemBarrier", "kStoreStore", 0)>> ELSE << >>)
         \o <<GIns("LoadValue", "rl_src_obj", 0), GIns("LoadValue", "rl_src_offset", 0)>>
         \o (IF it.is_long
             THEN <<GIns("LoadValueWide", "rl_src_value", 0),
                    GIns("OpRegReg kOpAdd", "rl_object, rl_offset", 0),
                    GIns("StoreBaseDispWide", "rl_object, rl_value", 0)>>
             ELSE <<GIns("LoadValue", "rl_src_value", 0),
                    GIns("StoreBaseIndexed", "rl_object, rl_offset, rl_value", 0)>>)
         \o (IF it.is_volatile THEN <<GIns("GenMemBarrier", "kStoreLoad", 0)>> ELSE << >>)
         \o (IF it.is_object THEN <<GIns("MarkGCCard", "rl_value, rl_object", 0)>> ELSE << >>),
         flags, << >>)

GenInlinedUnsafePut(cu, it, flags) ==
  IF cu = "kMips" THEN Declined(flags)
  ELSE Generated(TRUE,
         (IF it.is_volatile \/ it.is_ordered
          THEN <<GIns("GenMemBarrier", "kStoreStore", 0)>> ELSE << >>)
         \o <<GIns("LoadValue", "rl_src_obj", 0), GIns("LoadValue", "rl_src_offset", 0)>>
         \o (IF it.is_long
             THEN <<GIns("LoadValueWide", "rl_src_value", 0),
                    GIns("OpRegReg kOpAdd", "rl_object, rl_offset", 0),
                    GIns("StoreBaseDispWide", "rl_object, rl_value", 0)>>
             ELSE <<GIns("LoadValue", "rl_src_value", 0),
                    GIns("StoreBaseIndexed", "rl_object, rl_offset, rl_value", 0)>>)
         \o (IF it.is_volatile THEN <<GIns("GenMemBarrier", "kStoreLoad", 0)>> ELSE << >>)
         \o (IF it.is_object THEN <<GIns("MarkGCCard", "rl_value, rl_object", 0)>> ELSE << >>),
         flags, << >>)

\* the generator the inliner map picks for the callee; no generator for a
\* callee that is not an intrinsic
GenIntrinsic(cu, it, flags) ==
  CASE it.name = "CharAt" -> GenInlinedCharAt(cu, it, flags)
    [] it.name = "StringIsEmptyOrLength" -> GenInlinedStringIsEmptyOrLength(cu, it, flags)
    [] it.name = "ReverseBytes" -> GenInlinedReverseBytes(cu, it, flags)
    [] it.name = "AbsInt" -> GenInlinedAbsInt(cu, it, flags)
    [] it.name = "AbsLong" -> GenInlinedAbsLong(cu, it, flags)
    [] it.name = "AbsFloat" -> GenInlinedAbsFloat(cu, it, flags)
    [] it.name = "AbsDouble" -> GenInlinedAbsDouble(cu, it, flags)
    [] it.name = "FloatCvt" -> GenInlinedFloatCvt(cu, it, flags)
    [] it.name = "DoubleCvt" -> GenInlinedDoubleCvt(cu, it, flags)
    [] it.name = "IndexOf" -> GenInlinedIndexOf(cu, it, flags)
    [] it.name = "StringCompareTo" -> GenInlinedStringCompareTo(cu, it, flags)
    [] it.name = "CurrentThread" -> GenInlinedCurrentThread(cu, it, flags)
    [] it.name = "UnsafeGet" -> GenInlinedUnsafeGet(cu, it, flags)
    [] it.name = "UnsafePut" -> GenInlinedUnsafePut(cu, it, flags)
    [] OTHER -> Declined(flags)

\* the callees the inliner map knows, with the operands their generators read
Intrinsics ==
  {[NoIntrinsic EXCEPT !.name = n] :
     n \in {"AbsInt", "AbsLong", "AbsFloat", "AbsDouble", "FloatCvt", "DoubleCvt",
            "StringCompareTo", "CurrentThread"}}
  \cup {[NoIntrinsic EXCEPT !.name = "CharAt", !.is_const = c] : c \in BOOLEAN}
  \cup {[NoIntrinsic EXCEPT !.name = "StringIsEmptyOrLength", !.is_empty = e] : e \in BOOLEAN}
  \cup {[NoIntrinsic EXCEPT !.name = "ReverseBytes", !.size = z] : z \in {"kWord", "kSignedHalf"}}
  \cup {[NoIntrinsic EXCEPT !.name = "ReverseBytes", !.size = "kLong", !.overlap = o] :
          o \in BOOLEAN}
  \cup {[NoIntrinsic EXCEPT !.name = "IndexOf", !.is_const = ch[1], !.const_high = ch[2],
                            !.zero_based = z] :
          ch \in {<<FALSE, FALSE>>, <<TRUE, FALSE>>, <<TRUE, TRUE>>}, z \in BOOLEAN}
  \cup {[NoIntrinsic EXCEPT !.name = "UnsafeGet", !.is_long = l, !.is_volatile = v] :
          l \in BOOLEAN, v \in BOOLEAN}
  \cup {[NoIntrinsic EXCEPT !.name = "UnsafePut", !.is_long = l, !.is_object = o,
                            !.is_volatile = v, !.is_ordered = r] :
          l \in BOOLEAN, o \in BOOLEAN, v \in BOOLEAN, r \in BOOLEAN}

\* info->args as the generators index it: which words belong to a wide value
ArgShape(it) ==
  CASE it.name \in {"CharAt", "StringCompareTo"} -> <<FALSE, FALSE>>
    [] it.name \in {"StringIsEmptyOrLength", "AbsInt", "AbsFloat", "FloatCvt"} -> <<FALSE>>
    [] it.name \in {"AbsLong", "AbsDouble", "DoubleCvt"} -> <<TRUE, TRUE>>
    [] it.name = "ReverseBytes" -> IF it.size = "kLong" THEN <<TRUE, TRUE>> ELSE <<FALSE>>
    [] it.name = "IndexOf" ->
         IF it.zero_based THEN <<FALSE, FALSE>> ELSE <<FALSE, FALSE, FALSE>>
    [] it.name = "CurrentThread" -> << >>
    [] it.name = "UnsafeGet" -> <<FALSE, FALSE, TRUE, TRUE>>
    [] it.name = "UnsafePut" ->
         <<FALSE, FALSE, TRUE, TRUE>> \o (IF it.is_long THEN <<TRUE, TRUE>> ELSE <<FALSE>>)

IntrinsicArgLists(it) ==
  IF it.name = "none" THEN UpTo(2)
  ELSE {a \in ArgLists(Len(ArgShape(it))) :
          \A i \in 1..Len(a) : a[i].wide = ArgShape(it)[i]}

IntrinsicCallInfos(cu, it) ==
  {ci \in [type : InvokeTypes, fast_path : BOOLEAN, is_range : BOOLEAN,
           args : IntrinsicArgLists(it), direct_code : {0}, direct_method : {0},
           start_offset : {4 * (MaxArgWords + 10)}] :
     /\ WellFormedCall(cu, ci)
     /\ ci.is_range => NumArgWords(ci) > 5
     /\ it.name # "none" => ci.type \in {"kStatic", "kDirect", "kVirtual"}}

InitGenInvoke ==
  /\ arch \in InstructionSets
  /\ intrinsic \in Intrinsics
  /\ info \in IntrinsicCallInfos(arch, intrinsic)
  /\ opt_flags \in SUBSET OptFlags
  /\ pc = "GenInvoke"
  /\ call_state = 0
  /\ next_call_insn = "none"
  /\ skip_this = FALSE
  /\ p_null_ck = FALSE
  /\ lir = << >>
  /\ result = ResultUnread
  /\ launchpads = << >>
  /\ fi_pc = "idle" /\ fi_num_ins = 0 /\ fi_i = 0 /\ fi_cur = << >> /\ fi_lir = << >>
  /\ RangeIdle /\ HelperIdle /\ RunIdle

\* "if (GenIntrinsic(this, info)) return; GenInvokeNoInline(info);"
AfterGenIntrinsicAlwaysInvoke(handled) == "start"
AfterGenIntrinsic(handled) == IF handled THEN "inlined" ELSE "start"

\* AddIntrinsicLaunchpad: the slow path is queued, to be compiled after the
\* method body
AddIntrinsicLaunchpad(lps, registered) ==
  lps \o [i \in 1..Len(registered) |-> [cont |-> registered[i].cont, compiled |-> FALSE]]

\* GenInvoke up to the return of the generator
GenInvoke ==
  /\ pc = "GenInvoke"
  /\ LET g == GenIntrinsic(arch, intrinsic, opt_flags)
     IN /\ lir' = lir \o <<Trace("GenIntrinsic", 0)>> \o g.emit
        /\ opt_flags' = g.flags
        /\ launchpads' = AddIntrinsicLaunchpad(launchpads, g.launchpad)
        /\ pc' = AfterGenIntrinsic(g.handled)
  /\ UNCHANGED <<arch, info, call_state, next_call_insn, skip_this, p_null_ck, result,
                 intrinsic>>
  /\ UNCHANGED <<flushVars, rangeVars, helperVars, runVars>>

\* Compile re-issuing the call through GenInvoke
CompileLaunchpadThroughGenInvoke ==
  /\ pc = "inlined"
  /\ launchpads # << >>
  /\ lir' = lir \o <<Trace("HandleSlowPaths", 0),
                     Ins("launchpad", "ResetRegPool", NoReg, NoReg, NoReg, NoReg, "", 0),
                     Ins("launchpad", "ResetDefTracking", NoReg, NoReg, NoReg, NoReg, "", 0),
                     Ins("launchpad", "kPseudoIntrinsicRetry", NoReg, NoReg, NoReg, NoReg,
                         "GenerateTargetLabel", 1)>>
  /\ call_state' = 0
  /\ pc' = "GenInvoke"
  /\ UNCHANGED <<arch, info, next_call_insn, skip_this, p_null_ck, result, opt_flags>>
  /\ UNCHANGED nonInvokeVars

\* IntrinsicLaunchpadPath::Compile up to the call of GenInvokeNoInline, run
\* once the method body has been generated
CompileLaunchpad ==
  /\ pc = "inlined"
  /\ launchpads # << >>
  /\ lir' = lir \o <<Trace("HandleSlowPaths", 0),
                     Ins("launchpad", "ResetRegPool", NoReg, NoReg, NoReg, NoReg, "", 0),
                     Ins("launchpad", "ResetDefTracking", NoReg, NoReg, NoReg, NoReg, "", 0),
                     Ins("launchpad", "kPseudoIntrinsicRetry", NoReg, NoReg, NoReg, NoReg,
                         "GenerateTargetLabel", 1)>>
  /\ call_state' = 0
  /\ pc' = "start"
  /\ UNCHANGED <<arch, info, next_call_insn, skip_this, p_null_ck, result, opt_flags>>
  /\ UNCHANGED nonInvokeVars

\* the rest of Compile, after GenInvokeNoInline has returned
LaunchpadResume ==
  /\ pc = "done"
  /\ launchpads # << >>
  /\ ~launchpads[1].compiled
  /\ lir' = lir \o LaunchpadTail(launchpads[1])
  /\ launchpads' = [launchpads EXCEPT ![1].compiled = TRUE]
  /\ pc' = "compiled"
  /\ UNCHANGED <<arch, info, call_state, next_call_insn, skip_this, p_null_ck, result,
                 opt_flags, intrinsic>>
  /\ UNCHANGED <<flushVars, rangeVars, helperVars, runVars>>

NextGenInvoke ==
  \/ GenInvoke
  \/ CompileLaunchpad
  \/ LaunchpadResume
  \/ Next

SpecGenInvoke == InitGenInvoke /\ [][NextGenInvoke]_vars

(* ------------------------------------------------------------------ *)
(* The bulk copy of the range path, one step at a time                 *)
(* ------------------------------------------------------------------ *)
\* range calls with k words passed on the stack, every value in its home
RangeCalls ==
  {[type |-> "kStatic", fast_path |-> TRUE, is_range |-> TRUE,
    args |-> [i \in 1..(k + 3) |-> NarrowLoc("kLocDalvikFrame")],
    direct_code |-> 0, direct_method |-> 0, start_offset |-> so] :
     k \in 3..MaxStackWords, so \in StartOffsets}

InitRangeCopy ==
  /\ arch \in InstructionSets
  /\ info \in RangeCalls
  /\ pc = "args"
  /\ call_state = 0
  /\ next_call_insn = SelectedNextCallInsn(info)
  /\ skip_this = FALSE
  /\ p_null_ck = FALSE
  /\ lir = << >>
  /\ result = ResultUnread
  /\ opt_flags = {}
  /\ rc_pc = "start"
  /\ rc_src_offset = 0 /\ rc_dest_offset = 0 /\ rc_regs_left = 0
  /\ fi_pc = "idle" /\ fi_num_ins = 0 /\ fi_i = 0 /\ fi_cur = << >> /\ fi_lir = << >>
  /\ IntrinsicIdle /\ HelperIdle /\ RunIdle

\* which of the three ways of copying is taken
RangeCopyBranch(cu, regs_left) ==
  IF cu = "kThumb2" /\ regs_left <= 16 THEN "vldm"
  ELSE IF cu = "kX86" THEN "x86"
  ELSE "memcpy"

\* the start of the copy with the outgoing words placed at 3 * 4, no room
\* left for the Method*
RangeCopyStartNoMethodSlot ==
  /\ rc_pc = "start"
  /\ rc_dest_offset' = 3 * 4
  /\ rc_src_offset' = SRegOffset(info, 3)
  /\ rc_regs_left' = NumArgWords(info) - 3
  /\ rc_pc' = RangeCopyBranch(arch, NumArgWords(info) - 3)
  /\ UNCHANGED <<invokeVars, flushVars, intrinsicVars, helperVars, runVars>>

\* outs_offset, start_offset, regs_left_to_pass_via_stack and the branch
RangeCopyStart ==
  /\ rc_pc = "start"
  /\ rc_dest_offset' = 4 + (3 * 4)
  /\ rc_src_offset' = SRegOffset(info, 3)
  /\ rc_regs_left' = NumArgWords(info) - 3
  /\ rc_pc' = RangeCopyBranch(arch, NumArgWords(info) - 3)
  /\ UNCHANGED <<invokeVars, flushVars, intrinsicVars, helperVars, runVars>>

RangeCopyThumb2 ==
  /\ rc_pc = "vldm"
  /\ LET r == RangeCopyVldmVstm(info, [cs |-> call_state, lir |-> lir], next_call_insn, arch,
                                rc_dest_offset, rc_src_offset, rc_regs_left)
     IN call_state' = r.cs /\ lir' = r.lir
  /\ rc_pc' = "done"
  /\ UNCHANGED <<arch, info, pc, next_call_insn, skip_this, p_null_ck, result, opt_flags>>
  /\ UNCHANGED <<rc_src_offset, rc_dest_offset, rc_regs_left>>
  /\ UNCHANGED <<flushVars, intrinsicVars, helperVars, runVars>>

\* bytes_to_move of one iteration of the x86 loop
BytesToMoveAlways32(use128) == 4
BytesToMove(use128) == IF use128 THEN 4 * 4 ELSE 4

\* one iteration of "while (regs_left_to_pass_via_stack > 0)"
RangeCopyX86Iteration ==
  /\ rc_pc = "x86"
  /\ rc_regs_left > 0
  /\ LET use128 == Use128BitMove(rc_src_offset, rc_dest_offset, rc_regs_left)
         bytes_to_move == BytesToMove(use128)
     IN /\ lir' = lir \o (IF use128
                          THEN Move128(rc_src_offset, rc_dest_offset)
                          ELSE <<LoadWordDisp(kSp, rc_src_offset, kArg(3)),
                                 StoreWordDisp(kSp, rc_dest_offset, kArg(3))>>)
        /\ rc_src_offset' = rc_src_offset + bytes_to_move
        /\ rc_dest_offset' = rc_dest_offset + bytes_to_move
        /\ rc_regs_left' = rc_regs_left - (bytes_to_move \div 4)
  /\ UNCHANGED <<arch, info, pc, call_state, next_call_insn, skip_this, p_null_ck, result,
                 opt_flags, rc_pc>>
  /\ UNCHANGED <<flushVars, intrinsicVars, helperVars, runVars>>

RangeCopyX86Exit ==
  /\ rc_pc = "x86"
  /\ ~(rc_regs_left > 0)
  /\ rc_pc' = "done"
  /\ UNCHANGED <<invokeVars, rc_src_offset, rc_dest_offset, rc_regs_left>>
  /\ UNCHANGED <<flushVars, intrinsicVars, helperVars, runVars>>

RangeCopyCallMemcpy ==
  /\ rc_pc = "memcpy"
  /\ LET r == RangeCopyMemcpy(info, [cs |-> call_state, lir |-> lir], arch,
                              rc_dest_offset, rc_src_offset)
     IN call_state' = r.cs /\ lir' = r.lir
  /\ rc_pc' = "done"
  /\ UNCHANGED <<arch, info, pc, next_call_insn, skip_this, p_null_ck, result, opt_flags>>
  /\ UNCHANGED <<rc_src_offset, rc_dest_offset, rc_regs_left>>
  /\ UNCHANGED <<flushVars, intrinsicVars, helperVars, runVars>>

NextRangeCopy ==
  \/ RangeCopyStart
  \/ RangeCopyThumb2
  \/ RangeCopyX86Iteration
  \/ RangeCopyX86Exit
  \/ RangeCopyCallMemcpy

SpecRangeCopy == InitRangeCopy /\ [][NextRangeCopy]_vars

(* ------------------------------------------------------------------ *)
(* The runtime helper calls that take source registers                 *)
(* ------------------------------------------------------------------ *)
HelperDCheckNE(a, b) == IF a = b THEN <<Trace("DCHECK_NE failed", 0)>> ELSE << >>
HelperLoadCurrMethodDirect(dst) ==
  MIns("LoadCurrMethodDirect", dst, NoReg, NoReg, NoReg, "", 0)

CallRuntimeHelperReg(cu, helper, arg0, safepoint_pc) ==
  CallHelperSetup(cu, helper)
  \o <<OpRegCopy(kArg(0), arg0)>>
  \o CallHelper(cu, helper, safepoint_pc)

\* the constant loaded before the register is copied
CallRuntimeHelperImmRegConstantFirst(cu, helper, arg0, arg1, safepoint_pc) ==
  CallHelperSetup(cu, helper)
  \o <<LoadConstant(kArg(0), arg0), OpRegCopy(kArg(1), arg1)>>
  \o CallHelper(cu, helper, safepoint_pc)
CallRuntimeHelperImmReg(cu, helper, arg0, arg1, safepoint_pc) ==
  CallHelperSetup(cu, helper)
  \o <<OpRegCopy(kArg(1), arg1), LoadConstant(kArg(0), arg0)>>
  \o CallHelper(cu, helper, safepoint_pc)

CallRuntimeHelperRegImm(cu, helper, arg0, arg1, safepoint_pc) ==
  CallHelperSetup(cu, helper)
  \o <<OpRegCopy(kArg(0), arg0), LoadConstant(kArg(1), arg1)>>
  \o CallHelper(cu, helper, safepoint_pc)

CallRuntimeHelperRegMethod(cu, helper, arg0, safepoint_pc) ==
  CallHelperSetup(cu, helper)
  \o HelperDCheckNE(kArg(1), arg0)
  \o (IF kArg(0) # arg0 THEN <<OpRegCopy(kArg(0), arg0)>> ELSE << >>)
  \o <<HelperLoadCurrMethodDirect(kArg(1))>>
  \o CallHelper(cu, helper, safepoint_pc)

\* arg2 is the word of a value, read by LoadValueDirectFixed
CallRuntimeHelperRegMethodRegLocation(cu, helper, arg0, arg2, safepoint_pc) ==
  CallHelperSetup(cu, helper)
  \o HelperDCheckNE(kArg(1), arg0)
  \o (IF kArg(0) # arg0 THEN <<OpRegCopy(kArg(0), arg0)>> ELSE << >>)
  \o <<HelperLoadCurrMethodDirect(kArg(1)), LoadValueDirectFixed(arg2, kArg(2))>>
  \o CallHelper(cu, helper, safepoint_pc)

CallRuntimeHelperRegReg(cu, helper, arg0, arg1, safepoint_pc) ==
  CallHelperSetup(cu, helper)
  \o HelperDCheckNE(kArg(0), arg1)
  \o <<OpRegCopy(kArg(0), arg0), OpRegCopy(kArg(1), arg1)>>
  \o CallHelper(cu, helper, safepoint_pc)

HelperVariants ==
  {"Reg", "RegImm", "ImmReg", "RegReg", "RegRegImm", "RegMethod", "RegMethodRegLocation"}
\* the registers a caller may pass as a source: the argument registers and a temp
HelperSourceRegs == {kArg(0), kArg(1), kArg(2), kArg(3), <<"temp", 0>>}
HelperImmediates == {0, 7}
TakesArg0Reg(v) == v # "ImmReg"
TakesArg1Reg(v) == v \in {"ImmReg", "RegReg", "RegRegImm"}
\* the DCHECK_NE of the variant
HelperAdmits(v, arg0, arg1) ==
  /\ v \in {"RegReg", "RegRegImm"} => kArg(0) # arg1
  /\ v \in {"RegMethod", "RegMethodRegLocation"} => kArg(1) # arg0

InitHelper ==
  /\ arch \in InstructionSets
  /\ rh_variant \in HelperVariants
  /\ rh_arg0 \in (IF TakesArg0Reg(rh_variant) THEN HelperSourceRegs ELSE {NoReg})
  /\ rh_arg1 \in (IF TakesArg1Reg(rh_variant) THEN HelperSourceRegs ELSE {NoReg})
  /\ HelperAdmits(rh_variant, rh_arg0, rh_arg1)
  /\ rh_pc = "start"
  /\ info \in {ci \in RangeCalls : NumArgWords(ci) = 6 /\ ci.start_offset = 4 * (MaxArgWords + 10)}
  /\ pc = "done"
  /\ call_state = 0
  /\ next_call_insn = "none"
  /\ skip_this = FALSE
  /\ p_null_ck = FALSE
  /\ lir = << >>
  /\ result = ResultUnread
  /\ opt_flags = {}
  /\ fi_pc = "idle" /\ fi_num_ins = 0 /\ fi_i = 0 /\ fi_cur = << >> /\ fi_lir = << >>
  /\ IntrinsicIdle /\ RangeIdle /\ RunIdle

\* one helper call, from CallHelperSetup to CallHelper
CallRuntimeHelper ==
  /\ rh_pc = "start"
  /\ \E safepoint_pc \in BOOLEAN, imm \in HelperImmediates :
       lir' = lir \o
         (CASE rh_variant = "Reg" -> CallRuntimeHelperReg(arch, "pHelper", rh_arg0, safepoint_pc)
            [] rh_variant = "RegImm" ->
                 CallRuntimeHelperRegImm(arch, "pHelper", rh_arg0, imm, safepoint_pc)
            [] rh_variant = "ImmReg" ->
                 CallRuntimeHelperImmReg(arch, "pHelper", imm, rh_arg1, safepoint_pc)
            [] rh_variant = "RegReg" ->
                 CallRuntimeHelperRegReg(arch, "pHelper", rh_arg0, rh_arg1, safepoint_pc)
            [] rh_variant = "RegRegImm" ->
                 CallRuntimeHelperRegRegImm(arch, "pHelper", rh_arg0, rh_arg1, imm, safepoint_pc)
            [] rh_variant = "RegMethod" ->
                 CallRuntimeHelperRegMethod(arch, "pHelper", rh_arg0, safepoint_pc)
            [] rh_variant = "RegMethodRegLocation" ->
                 CallRuntimeHelperRegMethodRegLocation(arch, "pHelper", rh_arg0, 2, safepoint_pc))
  /\ rh_pc' = "done"
  /\ UNCHANGED <<arch, info, pc, call_state, next_call_insn, skip_this, p_null_ck, result,
                 opt_flags, rh_variant, rh_arg0, rh_arg1>>
  /\ UNCHANGED <<flushVars, intrinsicVars, rangeVars, runVars>>

NextHelper == CallRuntimeHelper

SpecHelper == InitHelper /\ [][NextHelper]_vars

(* ------------------------------------------------------------------ *)
(* Range calls whose values may live anywhere                          *)
(* ------------------------------------------------------------------ *)
\* argument lists of n words, every value in a register or in its home
RECURSIVE AnyLocArgLists(_)
AnyLocArgLists(n) ==
  IF n = 0 THEN {<< >>}
  ELSE {Append(a, NarrowLoc(l)) : a \in AnyLocArgLists(n - 1), l \in Locations}
       \cup (IF n >= 2
             THEN UNION {{a \o <<WideLoLoc(l), WideHiLoc(l)>> : l \in Locations}
                          : a \in AnyLocArgLists(n - 2)}
             ELSE {})

\* the calls GenDalvikArgsRange does not hand to GenDalvikArgsNoRange
LongRangeCalls ==
  [type : {"kStatic", "kVirtual"}, fast_path : {TRUE}, is_range : {TRUE},
   args : UNION {AnyLocArgLists(n) : n \in 6..MaxArgWords},
   direct_code : {0}, direct_method : {0}, start_offset : StartOffsets]

InitRangeArgs ==
  /\ arch \in InstructionSets
  /\ info \in {ci \in LongRangeCalls : WellFormedCall(arch, ci)}
  /\ pc = "start"
  /\ call_state = 0
  /\ next_call_insn = "none"
  /\ skip_this = FALSE
  /\ p_null_ck = FALSE
  /\ lir = << >>
  /\ result = ResultUnread
  /\ opt_flags = {}
  /\ fi_pc = "idle" /\ fi_num_ins = 0 /\ fi_i = 0 /\ fi_cur = << >> /\ fi_lir = << >>
  /\ IntrinsicIdle /\ RangeIdle /\ HelperIdle /\ RunIdle

SpecRangeArgs == InitRangeArgs /\ [][Next]_vars

(* ------------------------------------------------------------------ *)
(* Executing an emitted fast path: the guard that leaves for the       *)
(* launchpad, and the byte reversal of a register pair                 *)
(* ------------------------------------------------------------------ *)
\* 32-bit values as two's complement integers
MinInt32 == -2147483647 - 1
Int32Values == {MinInt32, -65536, -1, 0, 1, 2, 65535, 65536, 2147483647}
\* a < b for the unsigned readings of a and b: a negative value reads as
\* 2^32 + a, above every non-negative one
UnsignedLess(a, b) == IF (a < 0) = (b < 0) THEN a < b ELSE b < 0

\* the condition codes the guards branch on, after a compare of a with b
CondHolds(cond, a, b) ==
  CASE cond = "kCondUge" -> ~UnsignedLess(a, b)
    [] cond = "kCondUlt" -> UnsignedLess(a, b)
    [] cond = "kCondGt" -> a > b

\* the value an operand of a compare has
OperandValue(name, ops) ==
  CASE name \in {"rl_idx", "idx"} -> ops.idx
    [] name \in {"reg_max", "rl_obj.count"} -> ops.count
    [] name = "kArg1" -> ops.char
    [] name = "0xFFFF" -> 65535

\* the condition and the two operands of the branch at index g: OpCondBranch
\* tests the flags of the compare before it, the other two compare themselves
BranchCompares(code, g) ==
  CASE code[g].op = "OpCondBranch" /\ code[g - 1].fld = "rl_idx, reg_max" ->
         <<code[g].fld, "rl_idx", "reg_max">>
    [] code[g].op = "OpCondBranch" /\ code[g - 1].fld = "rl_idx, rl_obj.count" ->
         <<code[g].fld, "rl_idx", "rl_obj.count">>
    [] code[g].fld = "kCondUlt rl_obj.count, idx" -> <<"kCondUlt", "rl_obj.count", "idx">>
    [] code[g].fld = "kCondGt kArg1, 0xFFFF" -> <<"kCondGt", "kArg1", "0xFFFF">>

LaunchpadBranches(code) ==
  {g \in 1..Len(code) :
     /\ code[g].by = "intrinsic"
     /\ code[g].op \in {"OpCondBranch", "OpCmpMemImmBranch", "OpCmpImmBranch"}}

\* whether the execution of code with the values ops leaves for the launchpad
GuardTaken(code, ops) ==
  \E g \in LaunchpadBranches(code) :
    LET c == BranchCompares(code, g)
    IN CondHolds(c[1], OperandValue(c[2], ops), OperandValue(c[3], ops))

\* "(mir_graph_->ConstantValue(rl_char) & ~0xFFFF) != 0"
\* c & ~0xFFFF is c with its low 16 bits cleared
BeyondFFFF(c) == c - (c % 65536) # 0

\* kOpRev: the four bytes of a word in reverse order
Rev(w) == [i \in 1..4 |-> w[5 - i]]
CoreRegs == {"r0", "r1", "r2", "r3"}
LowWord == <<"l0", "l1", "l2", "l3">>
HighWord == <<"h0", "h1", "h2", "h3">>
Junk == <<"?", "?", "?", "?">>

\* the register an operand of the reversal names: r_i_low is the temp once
\* the low source register was copied, the low source register otherwise
RegNamed(name, code, alloc) ==
  CASE name = "rl_result.lo" -> alloc.result_lo
    [] name = "rl_result.hi" -> alloc.result_hi
    [] name = "rl_i.lo" -> alloc.i_lo
    [] name = "rl_i.hi" -> alloc.i_hi
    [] name = "r_i_low" ->
         IF \E k \in 1..Len(code) : code[k].op = "OpRegCopy" THEN "temp" ELSE alloc.i_lo

\* the registers after the instruction x of code
RunIns(regs, x, code, alloc) ==
  CASE x.op = "LoadValueWide" ->
         [[regs EXCEPT ![alloc.i_lo] = LowWord] EXCEPT ![alloc.i_hi] = HighWord]
    [] x.op = "OpRegCopy" /\ x.fld = "r_i_low, rl_i.lo" ->
         [regs EXCEPT ![RegNamed("r_i_low", code, alloc)] = regs[RegNamed("rl_i.lo", code, alloc)]]
    [] x.op = "OpRegReg kOpRev" /\ x.fld = "rl_result.lo, rl_i.hi" ->
         [regs EXCEPT ![RegNamed("rl_result.lo", code, alloc)] =
                         Rev(regs[RegNamed("rl_i.hi", code, alloc)])]
    [] x.op = "OpRegReg kOpRev" /\ x.fld = "rl_result.hi, r_i_low" ->
         [regs EXCEPT ![RegNamed("rl_result.hi", code, alloc)] =
                         Rev(regs[RegNamed("r_i_low", code, alloc)])]
    [] OTHER -> regs
RECURSIVE RunFrom(_, _, _, _)
RunFrom(regs, code, k, alloc) ==
  IF k > Len(code) THEN regs ELSE RunFrom(RunIns(regs, code[k], code, alloc), code, k + 1, alloc)

\* the assignments of the source pair and the result pair to registers
PairAllocs ==
  {a \in [i_lo : CoreRegs, i_hi : CoreRegs, result_lo : CoreRegs, result_hi : CoreRegs] :
     a.i_lo # a.i_hi /\ a.result_lo # a.result_hi}

\* the intrinsics whose fast path is executed, with the values it meets
RunInputs ==
  {[it |-> [NoIntrinsic EXCEPT !.name = "CharAt", !.is_const = c],
    ops |-> [NoOperands EXCEPT !.idx = i, !.count = n]] :
     c \in BOOLEAN, i \in Int32Values, n \in Int32Values}
  \cup {[it |-> [NoIntrinsic EXCEPT !.name = "IndexOf", !.is_const = c,
                                    !.const_high = c /\ BeyondFFFF(ch), !.zero_based = z],
         ops |-> [NoOperands EXCEPT !.char = ch]] :
          c \in BOOLEAN, z \in BOOLEAN, ch \in Int32Values}
  \cup {[it |-> [NoIntrinsic EXCEPT !.name = "ReverseBytes", !.size = "kLong",
                                    !.overlap = (a.i_lo = a.result_lo)],
         ops |-> [NoOperands EXCEPT !.alloc = a,
                                    !.regs = [r \in CoreRegs \cup {"temp"} |-> Junk]]] :
          a \in PairAllocs}

InitRun ==
  /\ arch \in InstructionSets
  /\ \E in \in RunInputs : intrinsic = in.it /\ operands = in.ops
  /\ info \in {ci \in IntrinsicCallInfos(arch, intrinsic) :
                 \* String methods are virtual, Long.reverseBytes is static
                 /\ ci.type = (IF intrinsic.name = "ReverseBytes" THEN "kStatic" ELSE "kVirtual")
                 /\ ci.fast_path
                 /\ \A i \in 1..Len(ci.args) : ci.args[i].location = "kLocDalvikFrame"}
  /\ opt_flags \in SUBSET OptFlags
  /\ outcome = "none"
  /\ pc = "GenInvoke"
  /\ call_state = 0
  /\ next_call_insn = "none"
  /\ skip_this = FALSE
  /\ p_null_ck = FALSE
  /\ lir = << >>
  /\ result = ResultUnread
  /\ launchpads = << >>
  /\ fi_pc = "idle" /\ fi_num_ins = 0 /\ fi_i = 0 /\ fi_cur = << >> /\ fi_lir = << >>
  /\ RangeIdle /\ HelperIdle

\* the emitted fast path is executed once: it leaves for the launchpad, or
\* runs to its end
RunFastPath ==
  /\ pc = "inlined"
  /\ outcome = "none"
  /\ IF GuardTaken(lir, operands)
     THEN outcome' = "launchpad" /\ UNCHANGED operands
     ELSE /\ outcome' = "fast"
          /\ operands' = IF intrinsic.name = "ReverseBytes"
                         THEN [operands EXCEPT !.regs = RunFrom(operands.regs, lir, 1,
                                                                operands.alloc)]
                         ELSE operands
  /\ UNCHANGED <<invokeVars, flushVars, intrinsicVars, rangeVars, helperVars>>

NextRun ==
  \/ GenInvoke
  \/ RunFastPath

SpecRun == InitRun /\ [][NextRun]_vars

(* ------------------------------------------------------------------ *)
(* Reading the log                                                     *)
(* ------------------------------------------------------------------ *)
IsCallInst(x) == x.by = "call" /\ x.op # "MarkSafepointPC"
IsPullMark(x) == x.op = "next_call_insn"
IsDispatchIns(x) == x.by = "dispatch" /\ x.op # "next_call_insn"

HasCall(code) == \E i \in 1..Len(code) : IsCallInst(code[i])
CallIndex(code) == CHOOSE i \in 1..Len(code) : IsCallInst(code[i])
BeforeCall(code) == IF HasCall(code) THEN SubSeq(code, 1, CallIndex(code) - 1) ELSE code
DispatchPart(code) == SelectSeq(code, IsDispatchIns)
PulledStates(code) == {code[i].imm : i \in {j \in 1..Len(code) : IsPullMark(code[j])}}
Count(code, P(_)) == Cardinality({i \in 1..Len(code) : P(code[i])})
IsPrefix(a, b) == Len(a) <= Len(b) /\ SubSeq(b, 1, Len(a)) = a

\* a routine pulled from state to its end: what it emits, the states it is
\* pulled with
RECURSIVE DrainFrom(_, _, _, _)
DrainFrom(nci, cu, ci, state) ==
  IF state < 0 THEN << >>
  ELSE LET r == NextCallInsn(nci, cu, ci, state)
       IN r.emit \o DrainFrom(nci, cu, ci, r.next)
RECURSIVE StatesFrom(_, _, _, _)
StatesFrom(nci, cu, ci, state) ==
  IF state < 0 THEN {}
  ELSE {state} \cup StatesFrom(nci, cu, ci, NextCallInsn(nci, cu, ci, state).next)

Called == pc \in {"called", "done"}
TrampolineNames ==
  {"pInvokeStaticTrampolineWithAccessCheck", "pInvokeDirectTrampolineWithAccessCheck",
   "pInvokeSuperTrampolineWithAccessCheck", "pInvokeVirtualTrampolineWithAccessCheck",
   "pInvokeInterfaceTrampolineWithAccessCheck"}

(* ------------------------------------------------------------------ *)
(* Claims                                                              *)
(* ------------------------------------------------------------------ *)

\* C1: the call instruction is emitted only after the selected dispatch
\* routine has returned a negative state: whenever the log holds the call
\* instruction, call_state is negative and every step of the routine, up to
\* the one that returns the terminal value, was pulled before the call, and
\* no pull follows the call.
C1_CallAfterDrain ==
  HasCall(lir) =>
    /\ call_state < 0
    /\ StatesFrom(next_call_insn, arch, info, 0) \subseteq PulledStates(BeforeCall(lir))
    /\ \A i \in CallIndex(lir)..Len(lir) : ~IsPullMark(lir[i])

\* a call with no argument word, whose four-step routine is pulled by the
\* drain loop alone, has been emitted
C1_Witness ==
  /\ Called
  /\ NumArgWords(info) = 0
  /\ next_call_insn = "NextSDCallInsn" /\ info.direct_method = 0

\* C2: when the call is emitted the callee address is populated: without a
\* memory-operand call kInvokeTgt holds a code address (direct code, entry
\* point or trampoline); kArg0 holds the target method (fast path) or the
\* method index (slow path); and the dispatch instructions in the log are
\* those of the routine pulled from state 0 to its end, whatever the arguments.
C2_CalleePopulated ==
  Called =>
    LET m == Exec(info, lir)
    IN /\ arch # "kX86" =>
            IF info.fast_path
            THEN m.regs[kInvokeTgt].k \in {"direct_code", "code_address", "entry_point"}
            ELSE m.regs[kInvokeTgt].k \in TrampolineNames
       /\ IF info.fast_path
          THEN m.regs[kArg(0)].k \in {"direct_method", "method_address", "target_method"}
          ELSE m.regs[kArg(0)].k = "dex_method_index"
       /\ DispatchPart(lir) = DrainFrom(next_call_insn, arch, info, 0)

\* a resolved virtual call of the range form whose stack words were copied by
\* the runtime block-copy helper has reached its call instruction
C2_Witness ==
  /\ Called
  /\ next_call_insn = "NextVCallInsn"
  /\ arch = "kMips" /\ info.is_range /\ NumArgWords(info) > 5

\* the outgoing stack slots of a call, and the slot of word w
OutsOffsets == {4 * j : j \in 1..(MaxArgWords + 1)}
IsLoadOfWordInto(x, w, reg) ==
  \/ x.op = "LoadValueDirectFixed" /\ x.imm = w /\ x.dst = reg
  \/ x.op = "LoadValueDirectWideFixed" /\ x.imm = w /\ x.dst = reg
  \/ x.op = "LoadValueDirectWideFixed" /\ x.imm = w - 1 /\ x.dst2 = reg

\* C3: when marshalling and the drain are over every argument word is placed
\* exactly once: word w < 3 is in kArg(w+1), loaded there by exactly one
\* instruction (word 0 by the dispatch routine iff skip_this); word w >= 3 is at
\* outgoing offset 4*(w+1), which was written exactly once; no other outgoing
\* slot was written.
C3_EveryWordPlacedOnce ==
  Called =>
    LET m == Exec(info, BeforeCall(lir))
        n == NumArgWords(info)
    IN /\ \A w \in 0..(n - 1) :
            IF w < 3
            THEN /\ m.regs[kArg(w + 1)] = Val("arg", w)
                 /\ Cardinality({i \in 1..Len(lir) :
                                   IsLoadOfWordInto(lir[i], w, kArg(w + 1))}) = 1
            ELSE /\ m.mem[4 * (w + 1)] = Val("arg", w)
                 /\ m.writes[4 * (w + 1)] = 1
       /\ \A o \in OutsOffsets : (o < 16 \/ o > 4 * n) => m.writes[o] = 0
       /\ n >= 1 =>
            \E i \in 1..Len(lir) :
              /\ IsLoadOfWordInto(lir[i], 0, kArg(1))
              /\ (lir[i].by = "dispatch") <=> skip_this

\* a range call with the receiver pre-consumed and a promoted value among the
\* words passed on the stack has reached its call instruction
C3_Witness ==
  /\ Called
  /\ skip_this
  /\ info.is_range /\ NumArgWords(info) > 5
  /\ \E w \in 3..(NumArgWords(info) - 1) : Arg(info, w).location = "kLocPhysReg"

IsTrace(x, what) == x.by = "trace" /\ x.op = what

\* C4: the bulk-copy logic runs iff the call is range-encoded with more than 5
\* words; a range-encoded call of at most 5 words is lowered exactly as the
\* compact path lowers the same arguments; the compact path's check
\* num_arg_words <= 5 never fails; in the range path at least 3 words remain
\* for the stack.
C4_PathRouting ==
  pc \notin {"start", "args"} =>
    /\ (\E i \in 1..Len(lir) : IsTrace(lir[i], "range"))
         <=> (info.is_range /\ NumArgWords(info) > 5)
    /\ (info.is_range /\ NumArgWords(info) <= 5) =>
         IsPrefix(GenDalvikArgsNoRange(info,
                    [cs |-> 0, lir |-> <<Trace("FlushAllRegs", 0), Trace("LockCallTemps", 0)>>],
                    next_call_insn, arch, skip_this, p_null_ck).lir, lir)
    /\ \A i \in 1..Len(lir) :
         /\ ~IsTrace(lir[i], "DCHECK_LE failed")
         /\ IsTrace(lir[i], "copy") => (lir[i].imm >= 3 /\ NumArgWords(info) > 3)

\* a range-encoded call of exactly 5 words went through the compact path
C4_Witness ==
  /\ pc = "drain"
  /\ info.is_range /\ NumArgWords(info) = 5

\* the states the routine was pulled with, in the order of the pulls
PullSequence(code) == SelectSeq(code, IsPullMark)
\* the pull that precedes position j of the log (0 if none)
PrecedingPull(code, j) ==
  IF \E i \in 1..(j - 1) : IsPullMark(code[i])
  THEN CHOOSE i \in 1..(j - 1) :
         IsPullMark(code[i]) /\ \A k \in (i + 1)..(j - 1) : ~IsPullMark(code[k])
  ELSE 0
\* one emitting step: the pulls are made with the states 0, 1, -1, -1, ... (the
\* pull with state 0 returned 1 and every later pull returned the terminal
\* value) and every dispatch instruction belongs to the pull with state 0
OneEmittingStep(code) ==
  /\ \A k \in 1..Len(PullSequence(code)) :
       PullSequence(code)[k].imm = (IF k = 1 THEN 0 ELSE IF k = 2 THEN 1 ELSE -1)
  /\ \A j \in 1..Len(code) :
       IsDispatchIns(code[j]) =>
         (PrecedingPull(code, j) # 0 /\ code[PrecedingPull(code, j)].imm = 0)

BothKnown ==
  /\ next_call_insn = "NextSDCallInsn"
  /\ info.direct_code # 0 /\ info.direct_method # 0
IsInvokeTgtCodeLoad(x) ==
  /\ x.dst = kInvokeTgt
  /\ \/ x.op = "LoadConstant" /\ x.fld = "direct_code"
     \/ x.op = "LoadCodeAddress"
IsArg0MethodLoad(x) ==
  /\ x.dst = kArg(0)
  /\ \/ x.op = "LoadConstant" /\ x.fld = "direct_method"
     \/ x.op = "LoadMethodAddress"
IsSlowOrTableLoad(x) ==
  \/ x.op = "LoadCurrMethodDirect"
  \/ x.op = "LoadWordDisp" /\ x.by = "dispatch"

\* C5 as stated: with code address and method pointer both known the routine
\* has exactly one emitting step, step 0, which loads the code address into
\* kInvokeTgt and the method pointer into kArg0; later pulls return the
\* terminal value without emitting; no current-method load, table dereference
\* or trampoline load is emitted.
C5_Original ==
  (Called /\ BothKnown) =>
    /\ OneEmittingStep(lir)
    /\ Count(DispatchPart(lir), IsInvokeTgtCodeLoad) = 1
    /\ Count(DispatchPart(lir), IsArg0MethodLoad) = 1
    /\ Len(DispatchPart(lir)) = 2
    /\ Count(lir, IsSlowOrTableLoad) = 0

\* C5 amended: as C5, but the code address is loaded into kInvokeTgt only on
\* the architectures without a memory-operand call; on x86 step 0 emits the
\* load of the method pointer into kArg0 alone.
C5_OneStepKnownTarget ==
  (Called /\ BothKnown) =>
    /\ OneEmittingStep(lir)
    /\ Count(DispatchPart(lir), IsInvokeTgtCodeLoad) = (IF arch = "kX86" THEN 0 ELSE 1)
    /\ Count(DispatchPart(lir), IsArg0MethodLoad) = 1
    /\ Len(DispatchPart(lir)) = (IF arch = "kX86" THEN 1 ELSE 2)
    /\ Count(lir, IsSlowOrTableLoad) = 0

\* a direct call with both addresses known and 5 argument words (so the routine
\* is pulled long after its end) has been emitted on x86
C5_Witness ==
  /\ Called /\ BothKnown
  /\ arch = "kX86" /\ info.type = "kDirect" /\ NumArgWords(info) = 5

VirtualTrampoline == "pInvokeVirtualTrampolineWithAccessCheck"
IsNullCheck(x) == x.op = "GenNullCheck"

\* C6: an unresolved virtual call uses the trampoline routine: the dispatch
\* instructions are the load of the virtual trampoline into kInvokeTgt (not on
\* x86) and one load of the method index into kArg0, nothing else; no null
\* check is emitted; the receiver is not pre-consumed, LoadArgRegs loads word 0
\* into kArg1.
C6_VirtualUnresolved ==
  (Called /\ info.type = "kVirtual" /\ ~info.fast_path) =>
    /\ next_call_insn = "NextVCallInsnSP"
    /\ \A j \in 1..Len(lir) :
         IsDispatchIns(lir[j]) =>
           \/ /\ lir[j].op = "LoadWordDisp" /\ lir[j].src = kSelf
              /\ lir[j].fld = VirtualTrampoline /\ lir[j].dst = kInvokeTgt
           \/ /\ lir[j].op = "LoadConstant" /\ lir[j].dst = kArg(0)
              /\ lir[j].fld = "dex_method_index"
    /\ Count(DispatchPart(lir), LAMBDA x : x.op = "LoadConstant") = 1
    /\ Count(DispatchPart(lir), LAMBDA x : x.op = "LoadWordDisp")
         = (IF arch = "kX86" THEN 0 ELSE 1)
    /\ Count(lir, IsNullCheck) = 0
    /\ ~skip_this
    /\ \E j \in 1..Len(lir) : lir[j].by = "marshal" /\ IsLoadOfWordInto(lir[j], 0, kArg(1))

\* an unresolved virtual call of the range form has been emitted
C6_Witness ==
  /\ Called
  /\ info.type = "kVirtual" /\ ~info.fast_path
  /\ arch = "kThumb2" /\ info.is_range /\ NumArgWords(info) > 5

\* the trampoline of an invocation kind
TrampolineOfKind(type) ==
  CASE type = "kStatic" -> "pInvokeStaticTrampolineWithAccessCheck"
    [] type = "kDirect" -> "pInvokeDirectTrampolineWithAccessCheck"
    [] type = "kSuper" -> "pInvokeSuperTrampolineWithAccessCheck"
    [] type = "kVirtual" -> "pInvokeVirtualTrampolineWithAccessCheck"
    [] type = "kInterface" -> "pInvokeInterfaceTrampolineWithAccessCheck"

\* C7: in unresolved mode the routine of every kind is one emitting step
\* followed by termination; it loads the trampoline of that kind into
\* kInvokeTgt, which the call instruction then calls (no memory-operand call),
\* or the call instruction names that same trampoline (x86); the method index
\* is loaded into kArg0 once.
C7_SlowPathTrampoline ==
  (Called /\ ~info.fast_path) =>
    LET m == Exec(info, BeforeCall(lir))
        call == lir[CallIndex(lir)]
    IN /\ OneEmittingStep(lir)
       /\ Count(DispatchPart(lir), LAMBDA x : x.op = "LoadConstant" /\ x.dst = kArg(0)) = 1
       /\ IF arch # "kX86"
          THEN /\ call.op = "OpReg kOpBlx" /\ call.src = kInvokeTgt
               /\ m.regs[kInvokeTgt] = Val(TrampolineOfKind(info.type), 0)
          ELSE /\ call.op = "OpThreadMem kOpBlx"
               /\ call.fld = TrampolineOfKind(info.type)
       /\ \A a \in InstructionSets \ {"kX86"} :
            NextCallInsn(next_call_insn, a, info, 0).emit[1].fld = CallInst("kX86", info).fld

\* an unresolved super call has been emitted on x86
C7_Witness ==
  /\ Called
  /\ info.type = "kSuper" /\ arch = "kX86"

\* the number of pulls of a full drain that return a non-negative next state
StepCount(nci, cu, ci) ==
  Cardinality({s \in StatesFrom(nci, cu, ci, 0) : NextCallInsn(nci, cu, ci, s).next >= 0})
\* the last step of a routine
IsFinalStep(nci, cu, ci, s) ==
  /\ NextCallInsn(nci, cu, ci, s).next >= 0
  /\ NextCallInsn(nci, cu, ci, NextCallInsn(nci, cu, ci, s).next).next = -1
\* the step that loads the entry point of the resolved method
IsEntryPointStep(nci, cu, ci, s) ==
  /\ IsFinalStep(nci, cu, ci, s)
  /\ nci \in {"NextVCallInsn", "NextInterfaceCallInsn"}
       \/ (nci = "NextSDCallInsn" /\ ~(ci.direct_code # 0 /\ ci.direct_method # 0))
\* a load of a code address (known address, entry point or trampoline) into kInvokeTgt
IsCodeAddressLoad(x) ==
  /\ x.dst = kInvokeTgt
  /\ \/ x.op \in {"LoadConstant", "LoadCodeAddress"}
     \/ x.op = "LoadWordDisp" /\ x.fld \in TrampolineNames \cup {"entry_point"}
IsHiddenFpCopy(x) == x.op = "OpRegCopy" /\ x.dst = kHiddenFpArg
NotCodeAddressLoad(x) == ~IsCodeAddressLoad(x)
NotHiddenFpCopy(x) == ~IsHiddenFpCopy(x)

\* C8 as stated: for every routine the number and order of the steps is the
\* same on every architecture, and the architectures differ only in whether the
\* final step, which loads the code address, emits.
C8_Original ==
  (pc # "start") =>
    \A a \in InstructionSets, b \in InstructionSets :
      /\ StepCount(next_call_insn, a, info) = StepCount(next_call_insn, b, info)
      /\ \A s \in StatesFrom(next_call_insn, a, info, 0) :
           \/ NextCallInsn(next_call_insn, a, info, s).emit
                = NextCallInsn(next_call_insn, b, info, s).emit
           \/ IsFinalStep(next_call_insn, a, info, s)

\* C8 amended: the steps have the same order on every architecture and
\* Thumb2 and MIPS are identical.  x86 differs from them in three ways only:
\* the entry-point-load step emits nothing and already returns the terminal
\* value (one pull fewer returns a non-negative state); a step may leave out its
\* load of a code address into kInvokeTgt; and the interface step 0 also
\* copies the hidden argument into kHiddenFpArg.
C8_StepsAcrossArchitectures ==
  (pc # "start") =>
    LET nci == next_call_insn
        x86(s) == NextCallInsn(nci, "kX86", info, s)
    IN /\ \A s \in StatesFrom(nci, "kThumb2", info, 0) :
            NextCallInsn(nci, "kThumb2", info, s) = NextCallInsn(nci, "kMips", info, s)
       /\ \A a \in InstructionSets \ {"kX86"} :
            /\ StepCount(nci, "kX86", info)
                 = StepCount(nci, a, info)
                     - (IF \E s \in StatesFrom(nci, a, info, 0) : IsEntryPointStep(nci, a, info, s)
                        THEN 1 ELSE 0)
            /\ \A s \in StatesFrom(nci, a, info, 0) :
                 LET o == NextCallInsn(nci, a, info, s)
                 IN IF IsEntryPointStep(nci, a, info, s)
                    THEN x86(s) = Step(<< >>, -1)
                    ELSE /\ x86(s).next = o.next
                         /\ SelectSeq(SelectSeq(x86(s).emit, NotHiddenFpCopy), NotCodeAddressLoad)
                              = SelectSeq(o.emit, NotCodeAddressLoad)
                         /\ IsPrefix(SelectSeq(x86(s).emit, IsCodeAddressLoad),
                                     SelectSeq(o.emit, IsCodeAddressLoad))
                         /\ Count(x86(s).emit, IsHiddenFpCopy)
                              = (IF nci = "NextInterfaceCallInsn" /\ s = 0 THEN 1 ELSE 0)

\* an interface call through the interface method table has been emitted on
\* x86, the routine having been pulled through all of its steps
C8_Witness ==
  /\ pc = "done" /\ arch = "kX86"
  /\ next_call_insn = "NextInterfaceCallInsn"
  /\ PulledStates(lir) = {0, 1, 2, 3, 4, 5, -1}

\* the loop of FlushIns has processed both words of a wide incoming value
WideDone ==
  /\ fi_pc \in {"loop", "done"}
  /\ Len(fi_cur) = 2
  /\ fi_cur[1].done /\ fi_cur[2].done
BothInRegs == fi_cur[1].in_reg /\ fi_cur[2].in_reg
\* a store of the word from its arrival register to its stack home was emitted
Stored(w) ==
  \E k \in 1..Len(w.emit) :
    /\ w.emit[k].op = "StoreBaseDisp"
    /\ w.emit[k].src = ArgRegOf(w.i) /\ w.emit[k].imm = w.i
PromotionDiffers ==
  \/ fi_cur[1].v_map.core_location # fi_cur[2].v_map.core_location
  \/ fi_cur[1].v_map.fp_location # fi_cur[2].v_map.fp_location

\* C9: for a wide incoming value both of whose words arrive in registers, if
\* the promotion states of the halves differ (core or fp location) both halves
\* are stored to their stack homes, and in every case the low half is flushed
\* exactly when the high half is.
C9_HalfPromotedFlushed ==
  (WideDone /\ BothInRegs) =>
    /\ PromotionDiffers => (Stored(fi_cur[1]) /\ Stored(fi_cur[2]))
    /\ fi_cur[1].need_flush = fi_cur[2].need_flush
    /\ Stored(fi_cur[1]) <=> Stored(fi_cur[2])
    /\ \A k \in 1..2 : Stored(fi_cur[k]) <=> fi_cur[k].need_flush

\* a wide floating value arrived in registers, its low half fp-promoted (and
\* copied to its fp register), its high half not promoted
C9_Witness ==
  /\ WideDone /\ BothInRegs
  /\ fi_cur[1].t_loc.fp
  /\ fi_cur[1].v_map.fp_location = "kLocPhysReg"
  /\ fi_cur[2].v_map.fp_location = "kLocDalvikFrame"
  /\ fi_cur[1].v_map.core_location = fi_cur[2].v_map.core_location
  /\ Len(fi_cur[1].emit) = 2

BothFpPromoted ==
  /\ fi_cur[1].t_loc.fp
  /\ fi_cur[1].v_map.fp_location = "kLocPhysReg"
  /\ fi_cur[2].v_map.fp_location = "kLocPhysReg"
SameCorePromotion == fi_cur[1].v_map.core_location = fi_cur[2].v_map.core_location
PairViolatesRule ==
  \/ fi_cur[1].v_map.FpReg % 2 = 1
  \/ fi_cur[2].v_map.FpReg # fi_cur[1].v_map.FpReg + 1

\* C10 as stated: on Thumb2, for a wide floating value arriving in registers
\* with both halves fp-promoted, each half is stored iff the low register is
\* odd or the high register is not low+1; on the other architectures the
\* stores do not depend on the pairing.
C10_Original ==
  (WideDone /\ BothInRegs /\ BothFpPromoted) =>
    IF arch = "kThumb2"
    THEN \A k \in 1..2 : Stored(fi_cur[k]) <=> PairViolatesRule
    ELSE \A k \in 1..2 : Stored(fi_cur[k]) <=> ~SameCorePromotion

\* C10 amended: on Thumb2, for a wide floating value arriving in registers
\* with both halves fp-promoted and with the same core promotion state, each
\* half is stored iff the low register is odd or the high register is not
\* low+1; on the other architectures no store is emitted for such a value.
C10_FpPairRule ==
  (WideDone /\ BothInRegs /\ BothFpPromoted /\ SameCorePromotion) =>
    IF arch = "kThumb2"
    THEN \A k \in 1..2 : Stored(fi_cur[k]) <=> PairViolatesRule
    ELSE \A k \in 1..2 : ~Stored(fi_cur[k])

\* on Thumb2 a double was promoted to the adjacent singles 1 and 2 (odd low
\* register) and both halves were copied and stored
C10_Witness ==
  /\ WideDone /\ BothInRegs /\ BothFpPromoted /\ SameCorePromotion
  /\ arch = "kThumb2"
  /\ fi_cur[1].v_map.FpReg = 1 /\ fi_cur[2].v_map.FpReg = 2
  /\ Stored(fi_cur[1]) /\ Stored(fi_cur[2])

\* a copy of the word from its arrival register to a promoted register was emitted
CopiedTo(w, dst) ==
  \E k \in 1..Len(w.emit) :
    /\ w.emit[k].op = "OpRegCopy"
    /\ w.emit[k].src = ArgRegOf(w.i) /\ w.emit[k].dst = dst
Copied(w) == CopiedTo(w, CoreRegOf(w.i)) \/ CopiedTo(w, FpRegOf(w.v_map))
\* the virtual register has a promotion of the type class of the argument
MatchingPromotion(w) ==
  \/ ~w.t_loc.fp /\ w.v_map.core_location = "kLocPhysReg"
  \/ w.t_loc.fp /\ w.v_map.fp_location = "kLocPhysReg"

\* C11: for every incoming word that arrived in a register, a copy to its
\* promoted register or a store to its stack home is emitted; the copy is
\* emitted iff the virtual register has a promotion of the argument's type
\* class, and goes to the register of that class; a narrow word gets exactly
\* one of the two.
C11_RegisterArrival ==
  \A k \in 1..Len(fi_cur) :
    (fi_cur[k].done /\ fi_cur[k].in_reg) =>
      LET w == fi_cur[k]
      IN /\ Copied(w) \/ Stored(w)
         /\ Copied(w) <=> MatchingPromotion(w)
         /\ Copied(w) =>
              CopiedTo(w, IF w.t_loc.fp THEN FpRegOf(w.v_map) ELSE CoreRegOf(w.i))
         /\ ~w.t_loc.wide => ~(Copied(w) /\ Stored(w))
         /\ Len(w.emit) <= 2
         /\ \A j \in 1..Len(w.emit) : w.emit[j].op \in {"OpRegCopy", "StoreBaseDisp"}

\* a narrow floating word arrived in a register, its virtual register has a
\* core promotion only, and the word was stored
C11_Witness ==
  /\ Len(fi_cur) = 1 /\ fi_cur[1].done /\ fi_cur[1].in_reg
  /\ fi_cur[1].t_loc.fp
  /\ fi_cur[1].v_map.core_location = "kLocPhysReg"
  /\ fi_cur[1].v_map.fp_location = "kLocDalvikFrame"
  /\ Stored(fi_cur[1])

IsRehome(x) == x.op = "StoreValue" /\ x.dst = <<"rl_method", 0>> /\ x.src = kArg(0)
IsMethodFlush(x) == x.op = "StoreWordDisp" /\ x.src = kArg(0) /\ x.fld = "sp" /\ x.imm = 0

\* C12: FlushIns re-homes the incoming Method* before anything is emitted
\* for an incoming argument, also with zero incoming arguments; it is stored
\* to stack offset 0 in addition exactly when its location is a promoted
\* register.
C12_MethodRehomedFirst ==
  /\ fi_pc = "entry" => (fi_lir = << >> /\ fi_cur = << >> /\ fi_i = 0)
  /\ fi_pc \in {"loop", "done"} =>
       /\ Len(fi_lir) >= 1 /\ IsRehome(fi_lir[1])
       /\ IF fi_lir[1].fld = "kLocPhysReg"
          THEN Len(fi_lir) = 2 /\ IsMethodFlush(fi_lir[2])
          ELSE Len(fi_lir) = 1
  /\ (fi_pc = "done" /\ fi_num_ins = 0) => fi_cur = << >>

\* a method without incoming arguments whose Method* is promoted
C12_Witness ==
  /\ fi_pc = "done" /\ fi_num_ins = 0
  /\ Len(fi_lir) = 2 /\ IsMethodFlush(fi_lir[2])

IsAnyCall(x) == x.op \in {"OpReg kOpBlx", "OpThreadMem kOpBlx", "OpMem kOpBlx", "CallWithLinkerFixup"}
IsSafepoint(x) == x.op = "MarkSafepointPC"
IsResultMove(x) == x.by = "result"
\* the instructions GenInvokeNoInline emits after the call, with their order
TailOfInvoke(code) == SubSeq(code, CallIndex(code) + 1, Len(code))
ResultMoveOf(rl) ==
  IF rl.wide
  THEN [op |-> "StoreValueWide", fld |-> IF rl.fp THEN "GetReturnWide(fp)" ELSE "GetReturnWide(core)"]
  ELSE [op |-> "StoreValue", fld |-> IF rl.fp THEN "GetReturn(fp)" ELSE "GetReturn(core)"]

\* C16 as stated: one execution of GenInvokeNoInline emits exactly one call
\* instruction and marks exactly that one as a safepoint; the mark precedes
\* ClobberCallerSave, which precedes the result move; the result is moved iff
\* info->result has a location, from the wide or narrow return location of
\* the result's register class.
C16_Original ==
  (pc = "done") =>
    /\ Count(lir, IsAnyCall) = 1
    /\ Count(lir, IsSafepoint) = 1
    /\ IsSafepoint(lir[CallIndex(lir) + 1])
    /\ IsTrace(lir[CallIndex(lir) + 2], "ClobberCallerSave")
    /\ Count(lir, IsResultMove) = (IF result.location # "kLocInvalid" THEN 1 ELSE 0)
    /\ result.location # "kLocInvalid" =>
         /\ Len(TailOfInvoke(lir)) = 3
         /\ IsResultMove(lir[Len(lir)])
         /\ lir[Len(lir)].op = ResultMoveOf(result).op
         /\ lir[Len(lir)].fld = ResultMoveOf(result).fld

\* C16 amended: one execution of GenInvokeNoInline emits exactly one call of
\* the invoked method (the only other call instruction it can emit is the call
\* of the block-copy helper on the range path, which is not a safepoint) and
\* marks exactly that one as a safepoint; the rest as stated.
C16_OneCallOneSafepoint ==
  (pc = "done") =>
    /\ Count(lir, IsCallInst) = 1
    /\ \A j \in 1..Len(lir) :
         (IsAnyCall(lir[j]) /\ ~IsCallInst(lir[j])) =>
           (lir[j].by = "marshal" /\ lir[j].fld = "pMemcpy")
    /\ Count(lir, IsSafepoint) = 1
    /\ IsSafepoint(lir[CallIndex(lir) + 1])
    /\ IsTrace(lir[CallIndex(lir) + 2], "ClobberCallerSave")
    /\ Count(lir, IsResultMove) = (IF result.location # "kLocInvalid" THEN 1 ELSE 0)
    /\ Len(TailOfInvoke(lir)) = (IF result.location # "kLocInvalid" THEN 3 ELSE 2)
    /\ result.location # "kLocInvalid" =>
         /\ IsResultMove(lir[Len(lir)])
         /\ lir[Len(lir)].op = ResultMoveOf(result).op
         /\ lir[Len(lir)].fld = ResultMoveOf(result).fld

\* a range call on MIPS whose arguments were copied by the block-copy helper
\* and whose wide floating result was moved
C16_Witness ==
  /\ pc = "done" /\ arch = "kMips"
  /\ info.is_range /\ NumArgWords(info) > 5
  /\ result.location # "kLocInvalid" /\ result.wide /\ result.fp
  /\ Count(lir, IsAnyCall) = 2

(* ------------------------------------------------------------------ *)
(* Intrinsic substitution                                              *)
(* ------------------------------------------------------------------ *)
IntrinsicMark == Trace("GenIntrinsic", 0)
SlowPathsMark == Trace("HandleSlowPaths", 0)
Attempted == pc # "GenInvoke"
ReportsHandled == GenIntrinsic(arch, intrinsic, {}).handled
IntrinsicDeclined == Attempted /\ ~ReportsHandled
\* the code of the method body: what precedes the compiling of the slow paths
PrimaryCode ==
  IF \E i \in 1..Len(lir) : lir[i] = SlowPathsMark
  THEN SubSeq(lir, 1, (CHOOSE i \in 1..Len(lir) : lir[i] = SlowPathsMark) - 1)
  ELSE lir
IsFlushAllRegs(x) == x = Trace("FlushAllRegs", 0)
IsLockCallTemps(x) == x = Trace("LockCallTemps", 0)
IsInvocationIns(x) == IsFlushAllRegs(x) \/ x.by \in {"dispatch", "marshal", "call", "result"}
IsGeneratorIns(x) == x.by = "intrinsic"
\* the cases in which a generator declines
DeclineCase ==
  \/ arch = "kMips" /\ intrinsic.name \in IntrinsicNames \ {"CurrentThread"}
  \/ intrinsic.name = "IndexOf" /\ intrinsic.is_const /\ intrinsic.const_high
GeneratorDeclines == pc = "GenInvoke" /\ pc' = "start"

\* C13: a generator that reports "not handled" has emitted no instruction,
\* registered no launchpad and left the optimization flags as they were; the
\* generators decline on MIPS (all but the current-thread accessor) and the
\* bounded string search declines for a constant code point beyond 0xFFFF;
\* GenInvoke then runs GenInvokeNoInline exactly once, and when the generator
\* reports "handled" no normal invocation is emitted inline.
C13_DeclineIsSideEffectFree ==
  /\ [](/\ (Attempted /\ intrinsic.name # "none" /\ DeclineCase) => IntrinsicDeclined
        /\ IntrinsicDeclined =>
             /\ launchpads = << >>
             /\ pc = "start" => lir = <<IntrinsicMark>>
             /\ Count(lir, IsGeneratorIns) = 0
             /\ Count(lir, IsFlushAllRegs) <= 1
             /\ pc = "done" => (Count(lir, IsFlushAllRegs) = 1 /\ Count(lir, IsSafepoint) = 1)
        /\ (Attempted /\ ReportsHandled) => Count(PrimaryCode, IsInvocationIns) = 0)
  /\ [][GeneratorDeclines =>
          (opt_flags' = opt_flags /\ launchpads' = launchpads /\ lir' = lir \o <<IntrinsicMark>>)]_vars
C13_Witness ==
  /\ pc = "done" /\ IntrinsicDeclined
  /\ arch = "kX86" /\ intrinsic.name = "IndexOf" /\ intrinsic.const_high
  /\ Count(lir, IsSafepoint) = 1

\* the run of the emitted code: the instructions control passes through from
\* the first one, every guard being taken or not as "taken" says; a branch goes
\* to the label it was bound to, and control leaves at the end of the method body
IsGuard(x) ==
  x.by = "intrinsic" /\ x.op \in {"OpCondBranch", "OpCmpMemImmBranch", "OpCmpImmBranch"}
IsRetryLabel(x) == x.op = "kPseudoIntrinsicRetry"
IsResumeLabel(x) == x.op = "kPseudoTargetLabel"
IsJumpBack(x) == x.op = "OpUnconditionalBranch"
LabelIndex(code, op, k) ==
  IF \E i \in 1..Len(code) : code[i].op = op /\ code[i].imm = k
  THEN CHOOSE i \in 1..Len(code) : code[i].op = op /\ code[i].imm = k
  ELSE 0
BranchTarget(code, i, taken) ==
  IF IsGuard(code[i]) /\ taken THEN LabelIndex(code, "kPseudoIntrinsicRetry", code[i].imm)
  ELSE IF IsJumpBack(code[i]) THEN LabelIndex(code, "kPseudoTargetLabel", code[i].imm)
  ELSE i + 1
RECURSIVE Walk(_, _, _, _)
Walk(code, i, taken, fuel) ==
  IF i < 1 \/ i > Len(code) \/ fuel = 0 THEN << >>
  ELSE IF code[i] = SlowPathsMark THEN << >>
  ELSE <<i>> \o Walk(code, BranchTarget(code, i, taken), taken, fuel - 1)
GuardTakenPath == Walk(lir, 1, TRUE, 2 * Len(lir) + 2)
Visits(path, i) == Cardinality({k \in 1..Len(path) : path[k] = i})
RetryIndex == LabelIndex(lir, "kPseudoIntrinsicRetry", 1)
ResumeIndex == LabelIndex(lir, "kPseudoTargetLabel", 1)
GuardIndex == CHOOSE i \in 1..Len(lir) : IsGuard(lir[i])
LaunchpadCode == SubSeq(lir, RetryIndex + 1, Len(lir))
LaunchpadCompiled == pc = "compiled"
\* the launchpad holds a whole non-inlined invocation and the run passes
\* through all of it
ReissuesInvocation ==
  /\ IsFlushAllRegs(lir[RetryIndex + 1])
  /\ Count(LaunchpadCode, IsFlushAllRegs) = 1
  /\ Count(LaunchpadCode, IsSafepoint) = 1
  /\ \A i \in RetryIndex..Len(lir) : Visits(GuardTakenPath, i) = 1
\* the jump back ends the launchpad and lands on the label that follows the
\* call of the fast path, from where the run reaches the store of the result
\* and the end of the method body
JumpsBack ==
  /\ IsJumpBack(lir[Len(lir)])
  /\ ResumeIndex > GuardIndex /\ IsAnyCall(lir[ResumeIndex - 1])
  /\ \E k \in 1..(Len(GuardTakenPath) - 1) :
       GuardTakenPath[k] = Len(lir) /\ GuardTakenPath[k + 1] = ResumeIndex
  /\ GuardTakenPath[Len(GuardTakenPath)] = Len(PrimaryCode)
  /\ lir[Len(PrimaryCode)].op = "StoreValue"
\* no jump back: the run ends with the last instruction of the invocation
EndsInLaunchpad ==
  /\ Count(lir, IsJumpBack) = 0 /\ ResumeIndex = 0
  /\ GuardTakenPath[Len(GuardTakenPath)] = Len(lir)

\* C14 as stated: for every guarded intrinsic the taken guard reaches the
\* launchpad once, the launchpad re-issues the invocation and then jumps back
\* to the resume label right after the fast path, the guard not being run
\* again.
C14_Original ==
  LaunchpadCompiled =>
    /\ Visits(GuardTakenPath, RetryIndex) = 1
    /\ Visits(GuardTakenPath, GuardIndex) = 1
    /\ ReissuesInvocation
    /\ JumpsBack

\* C14 (amended): for every guarded intrinsic the taken guard reaches the
\* launchpad exactly once, the guard is run once, and the launchpad re-issues
\* a whole non-inlined invocation; the launchpad of the bounded string search
\* then jumps back to the resume label placed right after the call of the
\* fast path, while the launchpads of the indexed character access and of the
\* string comparison were given no resume label and end with the invocation.
C14_LaunchpadRoundTrip ==
  LaunchpadCompiled =>
    /\ intrinsic.name \in {"CharAt", "IndexOf", "StringCompareTo"}
    /\ Visits(GuardTakenPath, RetryIndex) = 1
    /\ Visits(GuardTakenPath, GuardIndex) = 1
    /\ Count(lir, IsGuard) = 1
    /\ ReissuesInvocation
    /\ IF intrinsic.name = "IndexOf" THEN JumpsBack ELSE EndsInLaunchpad
C14_Witness ==
  /\ LaunchpadCompiled /\ intrinsic.name = "IndexOf" /\ JumpsBack
  /\ Visits(GuardTakenPath, RetryIndex) = 1

FlagsOnlyGrow == opt_flags \subseteq opt_flags'
NullCheckedBeforeLaunchpad == launchpads # << >> => "MIR_IGNORE_NULL_CHECK" \in opt_flags
LaunchpadStarted == RetryIndex # 0

\* C15: the optimization flags of a call descriptor only gain bits during its
\* lowering; every intrinsic that registers a launchpad has set "null check
\* already done" before the launchpad is materialized, so the invocation the
\* launchpad re-issues is lowered with the flag set and emits no second null
\* check.
C15_StickyNullCheckFlag ==
  /\ [](/\ NullCheckedBeforeLaunchpad
        /\ LaunchpadStarted =>
             ("MIR_IGNORE_NULL_CHECK" \in opt_flags /\ Count(LaunchpadCode, IsNullCheck) = 0))
  /\ [][FlagsOnlyGrow]_vars
\* a virtual call whose inlined part did check the receiver, and whose
\* launchpad holds the invocation without a check
C15_Witness ==
  /\ LaunchpadCompiled /\ intrinsic.name = "StringCompareTo"
  /\ info.type = "kVirtual" /\ info.fast_path
  /\ Count(PrimaryCode, IsNullCheck) = 1
  /\ Count(LaunchpadCode, IsNullCheck) = 0

MarkIndex == CHOOSE i \in 1..Len(lir) : lir[i] = IntrinsicMark
IsSelectionOrMarshalling(x) == x.by \in {"dispatch", "marshal", "call"}

\* C17 as stated: all live values are flushed and the call registers locked
\* before the intrinsic substitution is attempted.
C17_Original ==
  Attempted =>
    \E i, j \in 1..Len(lir) :
      i < j /\ j < MarkIndex /\ IsFlushAllRegs(lir[i]) /\ IsLockCallTemps(lir[j])

\* C17 (amended): the intrinsic substitution is attempted first, nothing being
\* flushed or locked before it; only after the intrinsic has declined are all
\* live values flushed and the call registers locked, and dispatch selection
\* and argument marshalling come after both; an intrinsic that handles the
\* call leaves no part of the normal invocation in the method body.
C17_FlushAfterDecline ==
  Attempted =>
    /\ MarkIndex = 1
    /\ ReportsHandled => Count(PrimaryCode, IsInvocationIns) = 0
    /\ (~ReportsHandled /\ pc # "start") =>
         /\ IsFlushAllRegs(lir[2]) /\ IsLockCallTemps(lir[3])
         /\ \A i \in 1..Len(lir) : IsSelectionOrMarshalling(lir[i]) => i > 3
C17_Witness ==
  /\ pc = "done" /\ IntrinsicDeclined /\ arch = "kMips" /\ intrinsic.name = "CharAt"
  /\ MarkIndex = 1 /\ IsFlushAllRegs(lir[2])
  /\ Count(lir, IsSelectionOrMarshalling) > 0

(* ------------------------------------------------------------------ *)
(* The bulk copy                                                       *)
(* ------------------------------------------------------------------ *)
MoveWidth(x) ==
  IF x.fld \in {"kMovA128FP", "kMovU128FP"} THEN 16
  ELSE IF x.fld \in {"kMovLo128FP", "kMovHi128FP"} THEN 8
  ELSE 0
\* the bytes an instruction of the copy reads from the caller's frame and
\* writes to the outgoing area
BytesLoaded(x) ==
  IF x.by # "marshal" THEN 0
  ELSE IF x.op = "OpMovRegMem" THEN MoveWidth(x)
  ELSE IF x.op = "LoadWordDisp" THEN 4
  ELSE IF x.op = "OpVldm" THEN 4 * x.imm
  ELSE IF x.op = "LoadConstant" /\ x.dst = kArg(2) THEN x.imm
  ELSE 0
BytesStored(x) ==
  IF x.by # "marshal" THEN 0
  ELSE IF x.op = "OpMovMemReg" THEN MoveWidth(x)
  ELSE IF x.op = "StoreWordDisp" THEN 4
  ELSE IF x.op = "OpVstm" THEN 4 * x.imm
  ELSE IF x.op = "LoadConstant" /\ x.dst = kArg(2) THEN x.imm
  ELSE 0
\* the frame bytes the instructions of the x86 loop read, and write
LoadedAt(code) ==
  UNION {(code[i].imm)..(code[i].imm + BytesLoaded(code[i]) - 1) :
           i \in {j \in 1..Len(code) : code[j].op \in {"OpMovRegMem", "LoadWordDisp"}}}
StoredAt(code) ==
  UNION {(code[i].imm)..(code[i].imm + BytesStored(code[i]) - 1) :
           i \in {j \in 1..Len(code) : code[j].op \in {"OpMovMemReg", "StoreWordDisp"}}}
RECURSIVE TotalLoaded(_)
TotalLoaded(code) ==
  IF code = << >> THEN 0 ELSE BytesLoaded(Head(code)) + TotalLoaded(Tail(code))
RECURSIVE TotalStored(_)
TotalStored(code) ==
  IF code = << >> THEN 0 ELSE BytesStored(Head(code)) + TotalStored(Tail(code))
StackBytes == 4 * (NumArgWords(info) - 3)
OutsOffset == 16
CopyDone == rc_pc = "done"
CopyBranch == RangeCopyBranch(arch, NumArgWords(info) - 3)

\* C18: for a range call of n > 5 words each of the three ways of copying
\* moves exactly 4*(n-3) bytes from the caller's frame to the outgoing area;
\* the x86 loop ends with 0 words left, the count never being negative, and
\* advances the source and the destination offset by the same amount in every
\* iteration.
C18_BulkTransferSize ==
  /\ CopyDone =>
       /\ TotalLoaded(lir) = StackBytes
       /\ TotalStored(lir) = StackBytes
       /\ CopyBranch = "x86" =>
            /\ rc_regs_left = 0
            /\ LoadedAt(lir) = SRegOffset(info, 3)..(SRegOffset(info, 3) + StackBytes - 1)
            /\ StoredAt(lir) = OutsOffset..(OutsOffset + StackBytes - 1)
            /\ lir = RangeCopyX86([cs |-> 0, lir |-> << >>], SRegOffset(info, 3), OutsOffset,
                                  NumArgWords(info) - 3).lir
  /\ rc_pc = "x86" =>
       /\ rc_regs_left >= 0
       /\ rc_src_offset - SRegOffset(info, 3) = rc_dest_offset - OutsOffset
       /\ rc_src_offset - SRegOffset(info, 3) = StackBytes - 4 * rc_regs_left
C18_Witness ==
  /\ CopyDone /\ CopyBranch = "x86" /\ NumArgWords(info) - 3 = 17
  /\ rc_regs_left = 0 /\ TotalStored(lir) = 68

Is32BitMove(x) == x.by = "marshal" /\ x.op \in {"LoadWordDisp", "StoreWordDisp"}
Is128BitClassMove(x) ==
  /\ x.by = "marshal" /\ x.op \in {"OpMovRegMem", "OpMovMemReg"}
  /\ XmmTemp \in {x.dst, x.src}
  /\ MoveWidth(x) > 0
Emitted == SubSeq(lir', Len(lir) + 1, Len(lir'))
FourWordsLeftStep == rc_pc = "x86" /\ rc_regs_left = 4 /\ rc_regs_left' # rc_regs_left
Alignments == {0, 4, 8, 12}

\* C19: in the x86 loop, whenever exactly 4 words are left one 128-bit-class
\* transfer (a load and a store of 16 bytes through an xmm register) is emitted
\* whatever the alignment of source and destination, and no 32-bit transfer is
\* emitted for those words.
C19_Always128AtFour ==
  /\ [](\A s \in Alignments, d \in Alignments :
          /\ Use128BitMove(64 + s, 16 + d, 4)
          /\ Count(Move128(64 + s, 16 + d), Is32BitMove) = 0
          /\ TotalLoaded(Move128(64 + s, 16 + d)) = 16
          /\ TotalStored(Move128(64 + s, 16 + d)) = 16)
  /\ [][FourWordsLeftStep =>
          /\ rc_regs_left' = 0
          /\ \A i \in 1..Len(Emitted) : Is128BitClassMove(Emitted[i])
          /\ TotalLoaded(Emitted) = 16
          /\ TotalStored(Emitted) = 16]_vars
\* four words left with the source not aligned to 8 bytes
C19_Witness ==
  /\ CopyDone /\ CopyBranch = "x86" /\ NumArgWords(info) - 3 = 4
  /\ SRegOffset(info, 3) % 8 = 4
  /\ Count(lir, Is128BitClassMove) = 2 /\ Count(lir, Is32BitMove) = 0

(* ------------------------------------------------------------------ *)
(* The runtime helper calls                                            *)
(* ------------------------------------------------------------------ *)
\* every register holds a value of its own when the helper call starts
Orig(r) == Val(r[1], r[2])
HelperMachine ==
  [regs |-> [r \in HelperSourceRegs \cup {RTgt, kSelf} |-> Orig(r)],
   mem |-> << >>, writes |-> << >>]
IsHelperCall(x) == x.by = "marshal" /\ x.op \in {"OpReg kOpBlx", "OpThreadMem kOpBlx"}
HelperCallIndex == CHOOSE i \in 1..Len(lir) : IsHelperCall(lir[i])
\* the registers when the call instruction is reached
AtHelperCall == ExecFrom(HelperMachine, SubSeq(lir, 1, HelperCallIndex - 1), 1)
HelperDone == rh_pc = "done"
IsImm(v) == v.k = "imm"

\* C20: in every CallRuntimeHelper variant that takes source registers, for
\* every choice of the source registers the assertions of the variant admit,
\* each argument register holds, when the helper is called, the original value
\* of its own source: a copy into kArg0 never overwrites the source of kArg1
\* before it is read.
C20_HelperCopiesKeepSources ==
  HelperDone =>
    /\ Count(lir, IsHelperCall) = 1
    /\ Count(lir, LAMBDA x : x = Trace("DCHECK_NE failed", 0)) = 0
    /\ TakesArg0Reg(rh_variant) => AtHelperCall.regs[kArg(0)] = Orig(rh_arg0)
    /\ TakesArg1Reg(rh_variant) => AtHelperCall.regs[kArg(1)] = Orig(rh_arg1)
    /\ rh_variant = "ImmReg" => IsImm(AtHelperCall.regs[kArg(0)])
    /\ rh_variant = "RegImm" => IsImm(AtHelperCall.regs[kArg(1)])
    /\ rh_variant = "RegRegImm" => IsImm(AtHelperCall.regs[kArg(2)])
    /\ rh_variant \in {"RegMethod", "RegMethodRegLocation"} =>
         AtHelperCall.regs[kArg(1)] = Val("curr_method", 0)
    /\ rh_variant = "RegMethodRegLocation" => AtHelperCall.regs[kArg(2)] = Val("arg", 2)
\* the two sources crossed: kArg1 is the source of kArg0
C20_Witness ==
  /\ HelperDone /\ rh_variant = "RegReg"
  /\ rh_arg0 = kArg(1) /\ rh_arg1 = kArg(2)
  /\ AtHelperCall.regs[kArg(0)] = Orig(kArg(1))
  /\ AtHelperCall.regs[kArg(1)] = Orig(kArg(2))


(* ------------------------------------------------------------------ *)
(* Registers shared by dispatch resolution and marshalling             *)
(* ------------------------------------------------------------------ *)
\* the registers a dispatch routine keeps a value in from one step to a later one
RoleRegs == {kArg(1), kInvokeTgt, kArg(0), kHiddenArg, kHiddenFpArg}
IsMarshalHelperCall(x) == x.by = "marshal" /\ x.op \in {"OpReg kOpBlx", "OpThreadMem kOpBlx"}
IsDispatchWrite(x, r) == IsDispatchIns(x) /\ x.dst = r
IsDispatchRead(x, r) ==
  \/ IsDispatchIns(x) /\ (x.src = r \/ x.src2 = r)
  \/ IsCallInst(x) /\ x.src = r
IsMarshalWrite(x, r) ==
  /\ x.by = "marshal"
  /\ \/ x.dst = r
     \/ x.dst2 = r
     \/ IsMarshalHelperCall(x) /\ r \in CallerSaveRegs
\* position j holds the dispatch write of r that the read at position k sees
FeedsRead(code, j, k, r) ==
  /\ j < k
  /\ IsDispatchWrite(code[j], r)
  /\ IsDispatchRead(code[k], r)
  /\ \A i \in (j + 1)..(k - 1) : ~IsDispatchWrite(code[i], r)
PullsBefore(code, i) == {j \in 1..(i - 1) : IsPullMark(code[j])}

\* C21: in the code of every call, on every routine, marshalling path and
\* argument list, no marshalling instruction writes a role register
\* (kArg1 holding the receiver, the invoke target, kArg0, the hidden argument)
\* between the dispatch instruction that writes it and the later dispatch
\* instruction or call instruction that reads it; and a runtime helper call
\* made while marshalling (pMemcpy, which clobbers the argument registers) is
\* emitted before the first pull of the dispatch routine, i.e. while
\* call_state is still 0.
C21_DispatchRegistersSurvive ==
  /\ \A r \in RoleRegs :
       LET writes == {j \in 1..Len(lir) : IsDispatchWrite(lir[j], r)}
           reads == {k \in 1..Len(lir) : IsDispatchRead(lir[k], r)}
           marshalled == {i \in 1..Len(lir) : IsMarshalWrite(lir[i], r)}
       IN \A k \in reads : \A i \in marshalled :
            (i < k /\ \E j \in writes : j < i) => \E j \in writes : i < j /\ j < k
  /\ \A i \in 1..Len(lir) :
       IsMarshalHelperCall(lir[i]) => PullsBefore(lir, i) = {}

\* a virtual fast-path range call copied by pMemcpy has been lowered: the
\* receiver written to kArg1 by step 0 is read by step 1 after further
\* arguments were loaded, and the helper call precedes every pull
C21_Witness ==
  /\ pc = "done"
  /\ info.type = "kVirtual" /\ info.fast_path /\ info.is_range /\ NumArgWords(info) > 5
  /\ \E i \in 1..Len(lir) : IsMarshalHelperCall(lir[i])
  /\ \E k \in 1..Len(lir) : \E j \in 1..(k - 1) :
       /\ FeedsRead(lir, j, k, kArg(1))
       /\ \E i \in (j + 1)..(k - 1) : lir[i].by = "marshal"


(* ------------------------------------------------------------------ *)
(* The interface routine against the virtual routine                   *)
(* ------------------------------------------------------------------ *)
\* what the interface routine loads beyond the virtual one
HiddenArgLoads(cu) ==
  <<DIns("LoadConstant", kHiddenArg, NoReg, "dex_method_index")>>
  \o (IF cu = "kX86" THEN <<DIns("OpRegCopy", kHiddenFpArg, kHiddenArg, "")>> ELSE << >>)
\* a virtual-dispatch instruction with the interface method table in place of
\* the vtable and the slot taken modulo the table size
AsInterfaceIns(x) ==
  CASE x.fld = "VTable" -> [x EXCEPT !.fld = "ImTable"]
    [] x.fld = "Data[method_idx]" -> [x EXCEPT !.fld = "Data[method_idx % kImtSize]"]
    [] OTHER -> x
AsInterface(code) == [i \in 1..Len(code) |-> AsInterfaceIns(code[i])]
InterfaceSelected == next_call_insn = "NextInterfaceCallInsn"
\* the states either routine can be called with
VirtualStates == 0..5

\* C22 as stated: the interface routine has as many steps as the virtual one
\* and each step emits what the virtual step of the same index emits (with
\* the interface table), step 0 emitting the hidden-argument loads as well.
C22_Original ==
  InterfaceSelected =>
    /\ StepCount(next_call_insn, arch, info) = StepCount("NextVCallInsn", arch, info)
    /\ \A s \in VirtualStates :
         LET v == NextVCallInsn(arch, info, s)
             i == NextCallInsn(next_call_insn, arch, info, s)
         IN /\ i.emit = (IF s = 0 THEN HiddenArgLoads(arch) ELSE << >>) \o AsInterface(v.emit)
            /\ i.next = v.next

\* C22: the interface routine is the virtual routine behind one extra step:
\* its step 0 emits only the load of the method index into kHiddenArg (and the
\* copy into kHiddenFpArg on x86), and its step s + 1 emits what virtual step s
\* emits, with ImTable for VTable and the slot taken modulo kImtSize, and
\* ends where the virtual routine ends; so it has one step more, and the
\* dispatch code of a lowered interface call is the hidden-argument loads
\* followed by the virtual sequence.
C22_InterfaceIsShiftedVirtual ==
  InterfaceSelected =>
    /\ NextCallInsn(next_call_insn, arch, info, 0) = Step(HiddenArgLoads(arch), 1)
    /\ \A s \in VirtualStates :
         LET v == NextVCallInsn(arch, info, s)
             i == NextCallInsn(next_call_insn, arch, info, s + 1)
         IN /\ i.emit = AsInterface(v.emit)
            /\ i.next = IF v.next < 0 THEN -1 ELSE v.next + 1
    /\ StepCount(next_call_insn, arch, info) = StepCount("NextVCallInsn", arch, info) + 1
    /\ Called =>
         DispatchPart(lir)
           = HiddenArgLoads(arch) \o AsInterface(DrainFrom("NextVCallInsn", arch, info, 0))

\* an interface fast-path call has been lowered and its receiver was loaded
\* by the pull made with state 1
C22_Witness ==
  /\ pc = "done" /\ InterfaceSelected
  /\ \E j \in 2..Len(lir) : lir[j] = LoadThis /\ lir[j - 1] = PullMark(1)


(* ------------------------------------------------------------------ *)
(* The flush scan of the range path                                    *)
(* ------------------------------------------------------------------ *)
IsBulkCopyIns(x) ==
  /\ x.by = "marshal"
  /\ \/ x.op \in {"OpVldm", "OpVstm", "OpMovRegMem", "OpMovMemReg"}
     \/ x.op = "LoadWordDisp" /\ x.fld = "mem"
     \/ IsMarshalHelperCall(x)
HasBulkCopy(code) == \E i \in 1..Len(code) : IsBulkCopyIns(code[i])
FirstBulkCopy(code) ==
  CHOOSE i \in 1..Len(code) :
    IsBulkCopyIns(code[i]) /\ \A j \in 1..(i - 1) : ~IsBulkCopyIns(code[j])
\* the first word of the value argument word w belongs to
ValueStart(ci, w) == IF Arg(ci, w).high_word THEN w - 1 ELSE w
\* w is a word passed on the stack whose value lives in a physical register
StackWordInReg(ci, w) == w >= 3 /\ Arg(ci, w).location = "kLocPhysReg"
\* the value of w lies in words 0..2 only
OnlyInRegisterWords(ci, w) ==
  IF Arg(ci, ValueStart(ci, w)).wide THEN ValueStart(ci, w) + 1 <= 2 ELSE w <= 2
IsHomeStore(x) == x.by = "marshal" /\ x.op \in {"StoreBaseDisp", "StoreBaseDispWide"}
\* instruction x stores word w from its register to its home slot
StoresHome(ci, x, w) ==
  /\ IsHomeStore(x)
  /\ \/ x.imm = SRegOffset(ci, w) /\ x.src = PhysRegOf(w)
     \/ x.op = "StoreBaseDispWide" /\ x.imm + 4 = SRegOffset(ci, w) /\ x.src2 = PhysRegOf(w)
Words(ci) == 0..(NumArgWords(ci) - 1)

\* C23: in the code of a range call of more than 5 words, before the first
\* instruction of the bulk copy there is, for every argument word of index
\* >= 3 whose value lives in a physical register, a store of that word from
\* its register to its home slot, so that every home slot of a word >= 3
\* holds the argument when the copy starts; and no word of a value that
\* lies in words 0..2 only is ever stored to its home.
C23_FlushBeforeCopy ==
  /\ HasBulkCopy(lir) =>
       LET first == FirstBulkCopy(lir)
           m == Exec(info, SubSeq(lir, 1, first - 1))
       IN \A w \in Words(info) :
            /\ StackWordInReg(info, w) =>
                 \E j \in 1..(first - 1) : StoresHome(info, lir[j], w)
            /\ w >= 3 => m.mem[SRegOffset(info, w)] = Val("arg", w)
  /\ \A j \in 1..Len(lir) : \A w \in Words(info) :
       StoresHome(info, lir[j], w) =>
         /\ ~OnlyInRegisterWords(info, w)
         /\ Arg(info, w).location = "kLocPhysReg"
         /\ ~HasBulkCopy(SubSeq(lir, 1, j))

\* a call whose words 2 and 3 are one wide value held in registers, whose
\* word 0 is a narrow value held in a register and whose last word is in a
\* register has been marshalled: the copy was emitted after the flushes
C23_Witness ==
  /\ pc = "drain" /\ HasBulkCopy(lir)
  /\ Arg(info, 0).location = "kLocPhysReg" /\ ~Arg(info, 0).wide
  /\ Arg(info, 2).wide /\ ~Arg(info, 2).high_word /\ Arg(info, 2).location = "kLocPhysReg"
  /\ StackWordInReg(info, NumArgWords(info) - 1)
  /\ \E j \in 1..Len(lir) : StoresHome(info, lir[j], 3)


(* ------------------------------------------------------------------ *)
(* The transfer unit of the x86 loop                                   *)
(* ------------------------------------------------------------------ *)
\* the moves one side of a 128-bit transfer is made of, by the alignment of
\* its offset: <<kind, displacement from the offset>>
SideMoves(off) ==
  IF off % 16 = 0 THEN <<<<"kMovA128FP", 0>>>>
  ELSE IF off % 8 = 0 THEN <<<<"kMovLo128FP", 0>>, <<"kMovHi128FP", 8>>>>
  ELSE <<<<"kMovU128FP", 0>>>>
IsXmmLoad(x) == x.by = "marshal" /\ x.op = "OpMovRegMem"
IsXmmStore(x) == x.by = "marshal" /\ x.op = "OpMovMemReg"
MovesOf(code, off) == [i \in 1..Len(code) |-> <<code[i].fld, code[i].imm - off>>]
\* code is one 128-bit transfer from src to dest
Is128BitTransfer(code, src, dest) ==
  /\ code = SelectSeq(code, IsXmmLoad) \o SelectSeq(code, IsXmmStore)
  /\ MovesOf(SelectSeq(code, IsXmmLoad), src) = SideMoves(src)
  /\ MovesOf(SelectSeq(code, IsXmmStore), dest) = SideMoves(dest)
\* code moves one 32-bit word from src to dest
Is32BitTransfer(code, src, dest) ==
  code = <<LoadWordDisp(kSp, src, kArg(3)), StoreWordDisp(kSp, dest, kArg(3))>>
Wants128(src, dest, regs_left) ==
  regs_left = 4 \/ (regs_left > 4 /\ (src % 16 = 0 \/ dest % 16 = 0))
X86LoopStep == rc_pc = "x86" /\ rc_regs_left' # rc_regs_left

\* C24: in the x86 loop an iteration makes a 128-bit transfer exactly when 4
\* words are left, or more than 4 are left and the source or the destination
\* offset is 16-byte aligned, and moves one 32-bit word otherwise; in a
\* 128-bit transfer the load and the store are each, by the alignment of their
\* own offset, one aligned 128-bit move (16-byte aligned), a low and a high
\* 64-bit move (8-byte aligned only) or one unaligned 128-bit move.  The
\* first conjunct states it of the choice and of the transfer for every pair
\* of alignments, the second of every iteration the loop makes.
C24_TransferUnitChoice ==
  /\ [](\A s \in Alignments, d \in Alignments :
          /\ \A n \in 1..MaxStackWords :
               Use128BitMove(64 + s, 16 + d, n) <=> Wants128(64 + s, 16 + d, n)
          /\ Is128BitTransfer(Move128(64 + s, 16 + d), 64 + s, 16 + d))
  /\ [][X86LoopStep =>
          IF Wants128(rc_src_offset, rc_dest_offset, rc_regs_left)
          THEN /\ Is128BitTransfer(Emitted, rc_src_offset, rc_dest_offset)
               /\ rc_regs_left' = rc_regs_left - 4
          ELSE /\ Is32BitTransfer(Emitted, rc_src_offset, rc_dest_offset)
               /\ rc_regs_left' = rc_regs_left - 1]_vars

\* five words copied from a source that is 8-byte aligned only: a 128-bit
\* transfer loaded in two halves and stored in one move, then a 32-bit word
C24_Witness ==
  /\ CopyDone /\ CopyBranch = "x86" /\ NumArgWords(info) - 3 = 5
  /\ SRegOffset(info, 3) % 16 = 8
  /\ MovesOf(SelectSeq(lir, IsXmmLoad), SRegOffset(info, 3)) = SideMoves(8)
  /\ MovesOf(SelectSeq(lir, IsXmmStore), OutsOffset) = SideMoves(0)
  /\ Count(lir, Is32BitMove) = 2


(* ------------------------------------------------------------------ *)
(* LoadArgRegs                                                         *)
(* ------------------------------------------------------------------ *)
\* the loads LoadArgRegs emits: the words 0..2 into the argument registers
IsArgRegLoad(x) ==
  /\ x.by = "marshal"
  /\ x.op \in {"LoadValueDirectFixed", "LoadValueDirectWideFixed"}
  /\ x.imm <= 2
IsWideArgRegLoad(x) == IsArgRegLoad(x) /\ x.op = "LoadValueDirectWideFixed"
ArgRegLoads(code) == {i \in 1..Len(code) : IsArgRegLoad(code[i])}
\* what LoadArgRegs emits and pulls for the call being lowered
LoadArgRegsAlone ==
  LoadArgRegs(info, [cs |-> 0, lir |-> << >>], next_call_insn, arch, skip_this).lir
\* the registers LoadArgRegs fills
ArgRegsFilled(code) ==
  {code[i].dst : i \in ArgRegLoads(code)}
  \cup {code[i].dst2 : i \in {j \in ArgRegLoads(code) : IsWideArgRegLoad(code[j])}}
Marshalled == pc \in {"drain", "called", "done"}
FirstArgReg == IF skip_this THEN 2 ELSE 1
ExpectedArgRegs ==
  {kArg(r) : r \in FirstArgReg..(IF NumArgWords(info) < 3 THEN NumArgWords(info) ELSE 3)}

\* C25 as stated: the number of dispatch steps LoadArgRegs pulls equals the
\* number of argument registers it fills, it fills registers among
\* kArg1..kArg3 only, and with the receiver pre-consumed it starts at kArg2
\* with word 1.
C25_Original ==
  Marshalled =>
    /\ Count(LoadArgRegsAlone, IsPullMark) = Cardinality(ArgRegsFilled(lir))
    /\ ArgRegsFilled(lir) = ExpectedArgRegs

\* C25: LoadArgRegs pulls one dispatch step per value it loads, i.e. per
\* iteration of its loop, right after the load: a narrow value (or the low
\* half of a wide value that only has kArg3 left) fills one register and
\* drives one step, a wide value loaded into a register pair fills two
\* registers and drives one step.  So the registers filled number the steps
\* pulled plus the pairs loaded.  The registers filled are kArg1..kArg3, as
\* far as there are words, starting at kArg2 with word 1 when the receiver
\* has been pre-consumed.
C25_OneStepPerValueLoaded ==
  Marshalled =>
    /\ SelectSeq(lir, IsArgRegLoad) = SelectSeq(LoadArgRegsAlone, IsArgRegLoad)
    /\ Count(LoadArgRegsAlone, IsPullMark) = Cardinality(ArgRegLoads(lir))
    /\ \A i \in ArgRegLoads(lir) : i < Len(lir) /\ IsPullMark(lir[i + 1])
    /\ Cardinality(ArgRegsFilled(lir))
         = Count(LoadArgRegsAlone, IsPullMark) + Count(lir, IsWideArgRegLoad)
    /\ ArgRegsFilled(lir) = ExpectedArgRegs
    /\ \A i \in ArgRegLoads(lir) : lir[i].dst = kArg(lir[i].imm + 1)
    /\ skip_this => \A i \in ArgRegLoads(lir) : lir[i].imm >= 1

\* a call whose words 1 and 2 are one wide value, the receiver pre-consumed:
\* one load fills kArg2 and kArg3 and is followed by one pull
C25_Witness ==
  /\ Marshalled /\ skip_this
  /\ NumArgWords(info) >= 3 /\ Arg(info, 1).wide /\ ~Arg(info, 1).high_word
  /\ Cardinality(ArgRegLoads(lir)) = 1
  /\ ArgRegsFilled(lir) = {kArg(2), kArg(3)}


(* ------------------------------------------------------------------ *)
(* The compact path                                                    *)
(* ------------------------------------------------------------------ *)
\* what GenDalvikArgsNoRange emits and pulls for the call being lowered
NoRangeAlone ==
  GenDalvikArgsNoRange(info, [cs |-> 0, lir |-> << >>], next_call_insn, arch, skip_this,
                       p_null_ck).lir
CompactMarshalled == Marshalled /\ NumArgWords(info) <= 5
IsOutsStore(x) ==
  x.by = "marshal" /\ x.op \in {"StoreWordDisp", "StoreBaseDisp", "StoreBaseDispWide"}
\* an argument is placed: stored to the outgoing area or loaded into its
\* argument register
IsPlacement(x) == IsOutsStore(x) \/ IsArgRegLoad(x)
\* an argument is read: placed, or loaded into a temp on its way to the stack
IsArgAccess(x) ==
  \/ IsPlacement(x)
  \/ x.by = "marshal" /\ x.op \in {"LoadValueDirectFixed", "LoadValueDirectWideFixed",
                                   "LoadWordDisp"}
\* exactly one pull is made right after position i, before the next
\* marshalling instruction
OnePullAfter(code, i) ==
  /\ i < Len(code) /\ IsPullMark(code[i + 1])
  /\ \A j \in (i + 2)..Len(code) :
       IsPullMark(code[j]) => \E k \in (i + 2)..(j - 1) : code[k].by = "marshal"

\* C26: the code of the compact path, for every call of at most 5 words, is
\* what GenDalvikArgsNoRange emits after FlushAllRegs and LockCallTemps; if
\* the call has arguments it starts with a pull of the dispatch routine (made
\* with state 0) that precedes every load and store of an argument, and every
\* instruction that places an argument (a store to the outgoing area, a load
\* into an argument register) is followed at once by exactly one pull; a
\* call without arguments pulls nothing while marshalling.
C26_CompactInterleaving ==
  CompactMarshalled =>
    LET code == NoRangeAlone
    IN /\ IsPrefix(<<Trace("FlushAllRegs", 0), Trace("LockCallTemps", 0)>> \o code, lir)
       /\ NumArgWords(info) = 0 => code = << >>
       /\ NumArgWords(info) > 0 =>
            /\ code[1] = PullMark(0)
            /\ \A i \in 1..Len(code) :
                 IsArgAccess(code[i]) => \E j \in 1..(i - 1) : IsPullMark(code[j])
            /\ NumArgWords(info) >= FirstArgReg => \E i \in 1..Len(code) : IsPlacement(code[i])
       /\ \A i \in 1..Len(code) : IsPlacement(code[i]) => OnePullAfter(code, i)

\* a compact call of 5 words, word 3 in a register and word 4 in its home,
\* has been marshalled
C26_Witness ==
  /\ pc = "drain" /\ ~info.is_range /\ NumArgWords(info) = 5
  /\ Arg(info, 3).location = "kLocPhysReg" /\ Arg(info, 4).location = "kLocDalvikFrame"
  /\ Count(NoRangeAlone, IsOutsStore) = 2
  /\ Count(NoRangeAlone, IsArgRegLoad) >= 2


(* ------------------------------------------------------------------ *)
(* A wide value in words 2 and 3 on the compact path                   *)
(* ------------------------------------------------------------------ *)
\* the store only the special case of GenDalvikArgsNoRange makes
IsSpanningStore(x) == x.by = "marshal" /\ x.op = "StoreBaseDisp"
SpecialCaseFired(code) == \E i \in 1..Len(code) : IsSpanningStore(code[i])
SpanningStoreIndex(code) == CHOOSE i \in 1..Len(code) : IsSpanningStore(code[i])
Word2IsLowHalf(ci) == Arg(ci, 2).wide /\ ~Arg(ci, 2).high_word
\* the stores of the loop "through the rest", and the word each starts at
IsLoopStore(x) == x.by = "marshal" /\ x.op \in {"StoreWordDisp", "StoreBaseDispWide"}
LoopStoreWord(x) == (x.imm \div 4) - 1
CompactWithStackWords == CompactMarshalled /\ NumArgWords(info) > 3

\* C27: on the compact path, for every argument list of 4 or 5 words, the
\* special case is taken if and only if word 2 is the low half of a wide
\* value.  When it is taken, one store writes the high half to outgoing offset
\* 16, from the value's high register if the value lives in registers and
\* otherwise from kArg3 loaded before from its home slot + 4; the store comes
\* before every store of a word >= 4 and offset 16 then holds word 3.  Every
\* store of the loop that follows starts at the first word of a value, never
\* at a high half.
C27_SpanningWide ==
  CompactWithStackWords =>
    LET code == NoRangeAlone
    IN /\ IsPrefix(<<Trace("FlushAllRegs", 0), Trace("LockCallTemps", 0)>> \o code, lir)
       /\ SpecialCaseFired(code) <=> Word2IsLowHalf(info)
       /\ SpecialCaseFired(code) =>
            LET i == SpanningStoreIndex(code)
            IN /\ Count(code, IsSpanningStore) = 1
               /\ code[i].imm = 16
               /\ IF Arg(info, 2).location = "kLocPhysReg"
                  THEN code[i].src = PhysRegOf(3)
                  ELSE /\ code[i].src = kArg(3)
                       /\ \E j \in 1..(i - 1) :
                            code[j] = LoadWordDisp(kSp, SRegOffset(info, 2) + 4, kArg(3))
               /\ \A j \in 1..Len(code) : IsLoopStore(code[j]) => i < j /\ code[j].imm >= 20
               /\ Exec(info, SubSeq(code, 1, i)).mem[16] = Val("arg", 3)
       /\ \A j \in 1..Len(code) :
            IsLoopStore(code[j]) =>
              /\ LoopStoreWord(code[j]) \in 3..(NumArgWords(info) - 1)
              /\ ~Arg(info, LoopStoreWord(code[j])).high_word

\* a compact call of 5 words whose words 2 and 3 are one wide value in its
\* home: the high half went to offset 16 through kArg3, then word 4 was stored
C27_Witness ==
  /\ pc = "drain" /\ ~info.is_range /\ NumArgWords(info) = 5
  /\ Word2IsLowHalf(info) /\ Arg(info, 2).location = "kLocDalvikFrame"
  /\ SpecialCaseFired(NoRangeAlone)
  /\ \E j \in 1..Len(NoRangeAlone) : IsLoopStore(NoRangeAlone[j]) /\ NoRangeAlone[j].imm = 20


(* ------------------------------------------------------------------ *)
(* FlushIns: words arriving in the frame                               *)
(* ------------------------------------------------------------------ *)
\* a load of incoming word w from its stack home into dst
IsHomeLoadInto(x, w, dst) ==
  /\ x.op = "LoadWordDisp" /\ x.src = kSp
  /\ x.fld = "SRegOffset" /\ x.imm = w.i
  /\ x.dst = dst
HomeLoadsInto(w, dst) == {k \in 1..Len(w.emit) : IsHomeLoadInto(w.emit[k], w, dst)}
CorePromoted(w) == w.v_map.core_location = "kLocPhysReg"
FpPromoted(w) == w.v_map.fp_location = "kLocPhysReg"

\* C28: for every incoming word that arrived in its stack home, one load from
\* the home into the core register of its virtual register is emitted iff the
\* virtual register has a core promotion, and one load from the home into its
\* floating register iff it has a floating promotion, whatever the type of the
\* argument; nothing else is emitted for the word, in particular no store,
\* and nothing at all when the virtual register is not promoted.
C28_FrameArrival ==
  \A k \in 1..Len(fi_cur) :
    (fi_cur[k].done /\ ~fi_cur[k].in_reg) =>
      LET w == fi_cur[k]
          core == HomeLoadsInto(w, CoreRegOf(w.i))
          fp == HomeLoadsInto(w, FpRegOf(w.v_map))
      IN /\ Cardinality(core) = (IF CorePromoted(w) THEN 1 ELSE 0)
         /\ Cardinality(fp) = (IF FpPromoted(w) THEN 1 ELSE 0)
         /\ core \cup fp = 1..Len(w.emit)
         /\ ~Stored(w)
         /\ \A j \in 1..Len(w.emit) : w.emit[j].op # "StoreBaseDisp"
         /\ (~CorePromoted(w) /\ ~FpPromoted(w)) => w.emit = << >>

\* a word arrived in the frame with both a core and a floating promotion of
\* its virtual register and was loaded into both registers
C28_Witness ==
  /\ Len(fi_cur) = 1 /\ fi_cur[1].done /\ ~fi_cur[1].in_reg
  /\ CorePromoted(fi_cur[1]) /\ FpPromoted(fi_cur[1])
  /\ Len(fi_cur[1].emit) = 2


(* ------------------------------------------------------------------ *)
(* Compiling the launchpads                                            *)
(* ------------------------------------------------------------------ *)
IsIntrinsicMark(x) == x = IntrinsicMark
IsResetRegPool(x) == x.by = "launchpad" /\ x.op = "ResetRegPool"
IsResetDefTracking(x) == x.by = "launchpad" /\ x.op = "ResetDefTracking"
\* nothing is left to generate
GenerationOver ==
  \/ pc \in {"inlined", "done"} /\ launchpads = << >>
  \/ pc = "compiled" /\ \A i \in 1..Len(launchpads) : launchpads[i].compiled
\* the launchpad is under way or finished
InLaunchpad == LaunchpadStarted /\ pc # "start"
\* how far the generation of the call site is from its end: the phase (method
\* body, launchpad), the position inside GenInvoke / GenInvokeNoInline /
\* Compile, and the steps the drain loop has left
PcRank ==
  CASE pc = "GenInvoke" -> 7
    [] pc = "start" -> 6
    [] pc = "args" -> 5
    [] pc = "drain" -> 4
    [] pc = "called" -> 3
    [] pc = "done" -> 2
    [] pc = "inlined" -> 1
    [] OTHER -> 0
DrainRank == IF pc = "drain" /\ call_state >= 0 THEN 8 - call_state ELSE 0
Rank == (IF LaunchpadStarted THEN 0 ELSE 100) + 10 * PcRank + DrainRank

\* C29: a launchpad is compiled as ResetRegPool, ResetDefTracking, the entry
\* label and then the invocation, which starts with FlushAllRegs of
\* GenInvokeNoInline; the code of the launchpad holds no second attempt of
\* GenIntrinsic and no instruction of a generator, and once the launchpad is
\* started no further launchpad is registered and GenInvoke is not entered
\* again; a call site has at most one launchpad and only if its inlined code
\* holds a guard; and the generation comes to an end: every step lowers a
\* rank that is a natural number, and as long as a launchpad is not compiled
\* a step can be taken.
C29_LaunchpadMaterialization ==
  /\ [](/\ Len(launchpads) <= 1
        /\ Count(lir, IsRetryLabel) <= Len(launchpads)
        /\ Count(lir, IsIntrinsicMark) <= 1
        /\ launchpads # << >> => Count(PrimaryCode, IsGuard) >= 1
        /\ LaunchpadStarted =>
             /\ RetryIndex > 2
             /\ IsResetRegPool(lir[RetryIndex - 2])
             /\ IsResetDefTracking(lir[RetryIndex - 1])
             /\ Count(lir, IsResetRegPool) = 1 /\ Count(lir, IsResetDefTracking) = 1
             /\ Count(LaunchpadCode, IsGeneratorIns) = 0
             /\ Count(LaunchpadCode, IsIntrinsicMark) = 0
        /\ InLaunchpad => (RetryIndex < Len(lir) /\ IsFlushAllRegs(lir[RetryIndex + 1])))
  /\ [][LaunchpadStarted => (Len(launchpads') = Len(launchpads) /\ pc' # "GenInvoke")]_vars
  /\ [](Rank \in 0..200 /\ (~GenerationOver => (pc = "args" \/ ENABLED NextGenInvoke)))
  /\ [][Rank' < Rank]_vars

\* the launchpad of an inlined call has been compiled: resets, label and one
\* whole invocation
C29_Witness ==
  /\ pc = "compiled" /\ Len(launchpads) = 1 /\ launchpads[1].compiled
  /\ IsResetRegPool(lir[RetryIndex - 2])
  /\ Count(LaunchpadCode, IsAnyCall) = 1


(* ------------------------------------------------------------------ *)
(* Static and direct calls with an unknown method pointer              *)
(* ------------------------------------------------------------------ *)
\* the routine is NextSDCallInsn, direct_method is 0 and the call instruction
\* takes its target from a register
SDUnknownMethod ==
  /\ next_call_insn = "NextSDCallInsn"
  /\ info.direct_method = 0
  /\ arch # "kX86"
WritesInvokeTgt(x) == IsDispatchIns(x) /\ x.dst = kInvokeTgt
\* the steps of the routine that write kInvokeTgt
InvokeTgtSteps ==
  {s \in StatesFrom(next_call_insn, arch, info, 0) :
     Count(NextCallInsn(next_call_insn, arch, info, s).emit, WritesInvokeTgt) > 0}
InvokeTgtWrites(code) == {i \in 1..Len(code) : WritesInvokeTgt(code[i])}
PulledWith(code) == [i \in 1..Len(PullSequence(code)) |-> PullSequence(code)[i].imm]

\* C30: for a static or direct fast-path call whose method pointer is not
\* known, on Thumb2 and MIPS, the routine is pulled with the states 0, 1, 2, 3
\* in this order (then with 4, which ends it, and with -1 by any marshalling
\* step still to come): step 0 loads the current
\* method, step 1 its resolved-methods table, step 2 the target method, all
\* into kArg0, and step 3 the entry point; kInvokeTgt is written by exactly
\* one instruction of exactly one step, step 1 if direct_code is known and
\* step 3 otherwise, and holds a code address when the call is made.
C30_InvokeTargetWrittenOnce ==
  SDUnknownMethod =>
    /\ StatesFrom(next_call_insn, arch, info, 0) = 0..4
    /\ NextCallInsn(next_call_insn, arch, info, 0).emit
         = <<DIns("LoadCurrMethodDirect", kArg(0), NoReg, "")>>
    /\ Head(NextCallInsn(next_call_insn, arch, info, 1).emit)
         = DIns("LoadWordDisp", kArg(0), kArg(0), "DexCacheResolvedMethods")
    /\ NextCallInsn(next_call_insn, arch, info, 2).emit
         = <<DIns("LoadWordDisp", kArg(0), kArg(0), "Data[dex_method_index]")>>
    /\ InvokeTgtSteps = {IF info.direct_code # 0 THEN 1 ELSE 3}
    /\ \A s \in InvokeTgtSteps :
         Count(NextCallInsn(next_call_insn, arch, info, s).emit, WritesInvokeTgt) = 1
    /\ Called =>
         /\ SubSeq(PulledWith(lir), 1, 5) = <<0, 1, 2, 3, 4>>
         /\ \A k \in 6..Len(PulledWith(lir)) : PulledWith(lir)[k] = -1
         /\ Cardinality(InvokeTgtWrites(lir)) = 1
         /\ \A i \in InvokeTgtWrites(lir) :
              lir[PrecedingPull(lir, i)].imm = (IF info.direct_code # 0 THEN 1 ELSE 3)
         /\ Exec(info, BeforeCall(lir)).regs[kInvokeTgt]
              = (CASE info.direct_code = 0 -> Val("entry_point", 0)
                   [] info.direct_code = -1 -> Val("code_address", 0)
                   [] OTHER -> Val("direct_code", 0))
         /\ Exec(info, BeforeCall(lir)).regs[kArg(0)] = Val("target_method", 0)

\* such a call with a known code address has been lowered on Thumb2: step 1
\* wrote kInvokeTgt and step 3 emitted nothing
C30_Witness ==
  /\ pc = "done" /\ SDUnknownMethod /\ arch = "kThumb2"
  /\ info.direct_code = 4096
  /\ NextCallInsn(next_call_insn, arch, info, 3).emit = << >>
  /\ Cardinality(InvokeTgtWrites(lir)) = 1

(* ------------------------------------------------------------------ *)
(* Static and direct calls where the call takes a memory operand       *)
(* ------------------------------------------------------------------ *)
SDMemoryIndirect == next_call_insn = "NextSDCallInsn" /\ arch = "kX86"

\* C31: on x86 the static/direct fast-path routine emits no load into
\* kInvokeTgt, in no step, with the method pointer known or not and whatever
\* the code address is: no step of the routine holds an instruction that
\* writes kInvokeTgt and none is in the log.
C31_Original ==
  SDMemoryIndirect =>
    /\ \A s \in 0..4 :
         Count(NextCallInsn(next_call_insn, arch, info, s).emit, WritesInvokeTgt) = 0
    /\ InvokeTgtWrites(lir) = {}

(* ------------------------------------------------------------------ *)
(* Pulls made once the routine has ended                               *)
(* ------------------------------------------------------------------ *)
DispatchRoutines ==
  {"NextSDCallInsn", "NextVCallInsn", "NextInterfaceCallInsn", "NextStaticCallInsnSP",
   "NextDirectCallInsnSP", "NextSuperCallInsnSP", "NextVCallInsnSP",
   "NextInterfaceCallInsnWithAccessCheck"}
PullStates == -2..7
\* the dispatch instructions that follow the pull at index k of the log, up
\* to the next pull
RECURSIVE EmittedAfter(_, _)
EmittedAfter(code, k) ==
  IF k + 1 > Len(code) \/ IsPullMark(code[k + 1]) THEN << >>
  ELSE (IF IsDispatchIns(code[k + 1]) THEN <<code[k + 1]>> ELSE << >>)
       \o EmittedAfter(code, k + 1)
PullIndices(code) == {k \in 1..Len(code) : IsPullMark(code[k])}

\* C32: the terminal state is absorbing and no step repeats.  Every dispatch
\* routine, pulled with a negative state, emits nothing and returns a negative
\* state, and pulled with a state s >= 0 returns s + 1 or a negative state.
\* In the log of one invocation every pull is made with the state the pull
\* before it returned, no non-negative state is pulled twice, a pull with a
\* negative state is followed by no dispatch instruction, and the dispatch
\* instructions of the log are a prefix of the routine's steps taken once each.
C32_TerminalStateAbsorbing ==
  \* arch and info never change: the routines are looked at once per call
  /\ pc = "start" =>
       \A nci \in DispatchRoutines : \A s \in PullStates :
         LET r == NextCallInsn(nci, arch, info, s)
         IN /\ s < 0 => (r.emit = << >> /\ r.next < 0)
            /\ s >= 0 => (r.next = s + 1 \/ r.next < 0)
  /\ pc # "start" =>
       LET p == PulledWith(lir)
           at == PullIndices(lir)
       IN /\ \A i \in 1..(Len(p) - 1) :
               p[i + 1] = NextCallInsn(next_call_insn, arch, info, p[i]).next
          /\ Len(p) > 0 =>
               (p[1] = 0 /\ call_state = NextCallInsn(next_call_insn, arch, info, p[Len(p)]).next)
          /\ \A i \in 1..Len(p) : \A j \in (i + 1)..Len(p) : p[i] = p[j] => p[i] < 0
          /\ \A k \in at :
               /\ lir[k].imm < 0 => EmittedAfter(lir, k) = << >>
               /\ lir[k].imm >= 0 =>
                    IsPrefix(EmittedAfter(lir, k),
                             NextCallInsn(next_call_insn, arch, info, lir[k].imm).emit)
          /\ IsPrefix(DispatchPart(lir), DrainFrom(next_call_insn, arch, info, 0))

\* a call through the trampoline routine with five argument words has been
\* emitted: marshalling pulled the routine again and again after it ended
C32_Witness ==
  /\ Called
  /\ next_call_insn = "NextStaticCallInsnSP" /\ NumArgWords(info) = 5
  /\ Cardinality({k \in PullIndices(lir) : lir[k].imm < 0}) >= 3
  /\ {lir[k].imm : k \in PullIndices(lir)} = {0, 1, -1}

(* ------------------------------------------------------------------ *)
(* The x86 transfer loop: how many transfers of each width             *)
(* ------------------------------------------------------------------ *)
IsWordStore(x) == x.by = "marshal" /\ x.op = "StoreWordDisp"
IsWordLoad(x) == x.by = "marshal" /\ x.op = "LoadWordDisp"
XmmStoresAt(code) == {i \in 1..Len(code) : IsXmmStore(code[i])}
WordStoresAt(code) == {i \in 1..Len(code) : IsWordStore(code[i])}
StackWords == NumArgWords(info) - 3

\* C33: in the x86 loop the destination offset starts at 16 and is 16-byte
\* aligned at every 128-bit transfer, so every 128-bit store is one aligned
\* move; for k stack words the loop emits k div 4 128-bit transfers and then
\* k mod 4 single-word transfers, and no single-word transfer is emitted
\* while 4 or more words are left.
C33_TransferCounts ==
  CopyBranch = "x86" =>
    LET wide == XmmStoresAt(lir)
        narrow == WordStoresAt(lir)
    IN /\ rc_pc = "x86" =>
            /\ rc_dest_offset = 16 + 4 * (StackWords - rc_regs_left)
            /\ rc_regs_left >= 4 => (rc_dest_offset % 16 = 0 /\ narrow = {})
            /\ 4 * Cardinality(wide) + Cardinality(narrow) = StackWords - rc_regs_left
       /\ \A i \in wide :
            /\ lir[i].fld = "kMovA128FP"
            /\ lir[i].imm % 16 = 0
            /\ lir[i].imm = 16 + 16 * (Cardinality({j \in wide : j < i}))
       /\ \A i \in wide : \A j \in narrow : i < j
       /\ Cardinality(narrow) = Count(lir, IsWordLoad)
       /\ narrow # {} => Cardinality(wide) = StackWords \div 4
       /\ CopyDone =>
            /\ Cardinality(wide) = StackWords \div 4
            /\ Cardinality(narrow) = StackWords % 4

\* seven stack words copied from a source that is not 8-byte aligned: one
\* 128-bit transfer with an aligned store, then three single words
C33_Witness ==
  /\ CopyDone /\ CopyBranch = "x86"
  /\ StackWords = 7 /\ SRegOffset(info, 3) % 8 # 0
  /\ Cardinality(XmmStoresAt(lir)) = 1
  /\ Cardinality(WordStoresAt(lir)) = 3

(* ------------------------------------------------------------------ *)
(* The guards of the inlined character access and string search        *)
(* ------------------------------------------------------------------ *)
FastPathRan == outcome # "none"
\* a >= b for the unsigned readings of two 32-bit values
UnsignedGe(a, b) == (a < 0 /\ b >= 0) \/ ((a < 0) = (b < 0) /\ a >= b)
RangeChecked == intrinsic.name = "CharAt" /\ "MIR_IGNORE_RANGE_CHECK" \notin opt_flags
CharAtForm ==
  IF arch # "kX86" THEN "register index"
  ELSE IF intrinsic.is_const THEN "constant index compared with memory"
  ELSE "compare with memory"

\* C34: when the range check of the inlined character access is not elided,
\* the executed guard leaves for the launchpad exactly when the index is out
\* of bounds, index >= length as unsigned 32-bit values, in each of the three
\* forms of the guard; the fast path goes on to read the character only for
\* an index in bounds.
C34_Original ==
  (FastPathRan /\ RangeChecked) =>
    /\ outcome = "launchpad" <=> UnsignedGe(operands.idx, operands.count)
    /\ outcome = "fast" => ~UnsignedGe(operands.idx, operands.count)

IndexOfSettled ==
  /\ intrinsic.name = "IndexOf" /\ arch # "kMips"
  /\ (pc = "start" \/ FastPathRan)
UsesFastHelper == outcome = "fast"
InCharRange(c) == 0 <= c /\ c <= 65535

\* C35: for every 32-bit code point c the fast search helper is used exactly
\* when 0 <= c <= 0xFFFF: a constant code point outside the range makes the
\* generator decline, a code point in a register outside the range makes the
\* executed guard leave for the launchpad, and the two tests sort every value
\* of c the same way.
C35_Original ==
  IndexOfSettled => (UsesFastHelper <=> InCharRange(operands.char))

(* ------------------------------------------------------------------ *)
(* The resume label of the bounded string search                       *)
(* ------------------------------------------------------------------ *)
IndexOfInlined == Attempted /\ intrinsic.name = "IndexOf" /\ ReportsHandled
IsFastHelperCall(x) == x.by = "intrinsic" /\ x.op = "OpReg kOpBlx"
IsInlineStore(x) == x.by = "intrinsic" /\ x.op = "StoreValue"
IndexIn(code, P(_)) == CHOOSE i \in 1..Len(code) : P(code[i])

\* C36: the bounded string search with a code point that is not a constant
\* emits its guard ahead of the call of the fast helper, the resume label
\* right after that call and right before the store of the result, and
\* registers its launchpad with that label; once the launchpad is compiled a
\* run that takes the guard executes neither the helper call nor the guard a
\* second time and ends in the store of the result the fast path ends in.
\* With a constant code point in range no guard, no resume label and no
\* launchpad is emitted.
C36_ResumePlacement ==
  IndexOfInlined =>
    /\ Count(PrimaryCode, IsFastHelperCall) = 1
    /\ Count(PrimaryCode, IsInlineStore) = 1
    /\ IsInlineStore(PrimaryCode[Len(PrimaryCode)])
    /\ IF intrinsic.is_const
       THEN /\ ~intrinsic.const_high
            /\ Count(lir, IsGuard) = 0
            /\ Count(lir, IsResumeLabel) = 0
            /\ Count(lir, IsRetryLabel) = 0
            /\ launchpads = << >>
       ELSE LET call == IndexIn(lir, IsFastHelperCall)
                store == IndexIn(lir, IsInlineStore)
            IN /\ Count(lir, IsGuard) = 1
               /\ Count(lir, IsResumeLabel) = 1
               /\ GuardIndex < call
               /\ ResumeIndex = call + 1
               /\ store = ResumeIndex + 1
               /\ Len(launchpads) = 1 /\ launchpads[1].cont
               /\ lir[GuardIndex].imm = lir[ResumeIndex].imm
               /\ LaunchpadCompiled =>
                    /\ IsJumpBack(lir[Len(lir)])
                    /\ lir[Len(lir)].imm = lir[ResumeIndex].imm
                    /\ Visits(GuardTakenPath, call) = 0
                    /\ Visits(GuardTakenPath, GuardIndex) = 1
                    /\ Visits(GuardTakenPath, ResumeIndex) = 1
                    /\ Visits(GuardTakenPath, store) = 1
                    /\ GuardTakenPath[Len(GuardTakenPath)] = store

\* the launchpad of a string search with a start index and a code point held
\* in a register has been compiled on x86
C36_Witness ==
  /\ IndexOfInlined /\ LaunchpadCompiled
  /\ arch = "kX86" /\ ~intrinsic.is_const /\ ~intrinsic.zero_based
  /\ Visits(GuardTakenPath, ResumeIndex) = 1

(* ------------------------------------------------------------------ *)
(* The null check of the receiver                                      *)
(* ------------------------------------------------------------------ *)
NullChecksAt(code) == {i \in 1..Len(code) : IsNullCheck(code[i])}
ReceiverLoadsAt(code) == {i \in 1..Len(code) : IsLoadOfWordInto(code[i], 0, kArg(1))}
IsClassLoad(x) == x.by = "dispatch" /\ x.op = "LoadWordDisp" /\ x.fld = "Class"

LongReversalRan ==
  /\ intrinsic.name = "ReverseBytes" /\ intrinsic.size = "kLong"
  /\ outcome = "fast"

\* C38: whatever registers hold the source pair and the result pair, the two
\* registers of each pair being distinct, the emitted sequence leaves the
\* bytes of the source high word, in reverse order, in the low result register
\* and the bytes of the source low word, in reverse order, in the high result
\* register.
C38_ReversalUnderAliasing ==
  LongReversalRan =>
    /\ operands.alloc.i_lo # operands.alloc.i_hi
    /\ operands.alloc.result_lo # operands.alloc.result_hi
    /\ operands.regs[operands.alloc.result_lo] = <<"h3", "h2", "h1", "h0">>
    /\ operands.regs[operands.alloc.result_hi] = <<"l3", "l2", "l1", "l0">>

\* the reversal ran with the low source register also the low result register
\* and the high source register also the high result register
C38_Witness ==
  /\ LongReversalRan
  /\ operands.alloc.i_lo = operands.alloc.result_lo
  /\ operands.alloc.i_hi = operands.alloc.result_hi
  /\ \E k \in 1..Len(lir) : lir[k].op = "OpRegCopy"

(* ------------------------------------------------------------------ *)
(* The barriers of the unsafe field accesses                           *)
(* ------------------------------------------------------------------ *)
UnsafeInlined(name) == Attempted /\ intrinsic.name = name /\ ReportsHandled
IsBarrier(x) == x.by = "intrinsic" /\ x.op = "GenMemBarrier"
BarriersAt(code, kind) == {i \in 1..Len(code) : IsBarrier(code[i]) /\ code[i].fld = kind}
IsFieldStore(x) == x.by = "intrinsic" /\ x.op \in {"StoreBaseDispWide", "StoreBaseIndexed"}
IsFieldLoad(x) == x.by = "intrinsic" /\ x.op \in {"LoadBaseDispWide", "LoadBaseIndexed"}
IsCardMark(x) == x.by = "intrinsic" /\ x.op = "MarkGCCard"
At(code, P(_)) == {i \in 1..Len(code) : P(code[i])}
OneIff(set, cond) == Cardinality(set) = (IF cond THEN 1 ELSE 0)

\* C39: the inlined unsafe put emits one field store; a store-store barrier
\* before it exactly when the put is volatile or ordered; a store-load
\* barrier after it exactly when the put is volatile; the card mark after it
\* exactly when the value is an object reference; and no other barrier, so a
\* plain put emits none.
C39_UnsafePutFences ==
  UnsafeInlined("UnsafePut") =>
    LET code == PrimaryCode
        stores == At(code, IsFieldStore)
    IN /\ Cardinality(stores) = 1
       /\ OneIff(BarriersAt(code, "kStoreStore"), intrinsic.is_volatile \/ intrinsic.is_ordered)
       /\ OneIff(BarriersAt(code, "kStoreLoad"), intrinsic.is_volatile)
       /\ OneIff(At(code, IsCardMark), intrinsic.is_object)
       /\ At(code, IsBarrier) = BarriersAt(code, "kStoreStore") \cup BarriersAt(code, "kStoreLoad")
       /\ \A s \in stores :
            /\ \A b \in BarriersAt(code, "kStoreStore") : b < s
            /\ \A b \in BarriersAt(code, "kStoreLoad") : s < b
            /\ \A c \in At(code, IsCardMark) : s < c
       /\ (~intrinsic.is_volatile /\ ~intrinsic.is_ordered) => At(code, IsBarrier) = {}

\* an ordered put of an object reference has been inlined on Thumb2: one
\* barrier ahead of the store, the card mark behind it
C39_Witness ==
  /\ UnsafeInlined("UnsafePut") /\ arch = "kThumb2"
  /\ intrinsic.is_ordered /\ ~intrinsic.is_volatile /\ intrinsic.is_object
  /\ Cardinality(At(lir, IsBarrier)) = 1
  /\ Cardinality(At(lir, IsCardMark)) = 1

\* C40: the inlined unsafe get emits a load-load barrier exactly when the get
\* is volatile, and emits it after the load of the field and before the store
\* of the result; a get that is not volatile emits no barrier.
C40_Original ==
  UnsafeInlined("UnsafeGet") =>
    LET code == PrimaryCode
        loads == At(code, IsFieldLoad)
        barriers == At(code, IsBarrier)
    IN /\ Cardinality(loads) = 1
       /\ OneIff(barriers, intrinsic.is_volatile)
       /\ barriers = BarriersAt(code, "kLoadLoad")
       /\ \A b \in barriers :
            /\ \A l \in loads : l < b
            /\ b < Len(code) /\ code[Len(code)].op \in {"StoreValue", "StoreValueWide"}

====
